---- MODULE Spec2Model ----
(***************************************************************************)
(* Model of the voice-transcription-engine: Transcriber.transcribe and its *)
(* two segmentation planners (src/src/transcriber.py).                     *)
(***************************************************************************)
EXTENDS Integers, Sequences, FiniteSets, TLC

(***************************************************************************)
(* Arithmetic.  The byte-budget planner computes its stride in IEEE-754    *)
(* double precision (Python float).  A double is modelled exactly as a     *)
(* record [m, e] with value m * 2^e, where the 53-bit significand m is in  *)
(* [2^52, 2^53) and is kept as a pair <<hi, lo>> of 27-bit limbs.          *)
(***************************************************************************)
Limb == 2 ^ 27

PGe(p, q) == p[1] > q[1] \/ (p[1] = q[1] /\ p[2] >= q[2])

PSub(p, q) ==
    IF p[2] >= q[2] THEN <<p[1] - q[1], p[2] - q[2]>>
    ELSE <<p[1] - q[1] - 1, p[2] + Limb - q[2]>>

PDblAdd(p, bit) ==
    LET l == 2 * p[2] + bit
    IN  <<2 * p[1] + (l \div Limb), l % Limb>>

PIsZero(p) == p[1] = 0 /\ p[2] = 0

PInc(p) == IF p[2] = Limb - 1 THEN <<p[1] + 1, 0>> ELSE <<p[1], p[2] + 1>>

\* Number of bits of n (0 < n < 2^31).
BitLen(n) == CHOOSE k \in 1..31 : 2 ^ (k - 1) <= n /\ (k = 31 \/ n < 2 ^ k)

\* float(n) for an integer 0 < n < 2^31: exact, n shifted left to 53 bits.
FloatOfInt(n) ==
    LET s == 53 - BitLen(n)
    IN  [m |-> IF s >= 27 THEN <<n * (2 ^ (s - 27)), 0>>
               ELSE <<n \div (2 ^ (27 - s)), (n % (2 ^ (27 - s))) * (2 ^ s)>>,
         e |-> 0 - s]

\* One step of binary long division by the significand d: the state
\* <<quotient, remainder, steps>> gains one quotient bit.
DivStep(s, d) ==
    LET r2 == PDblAdd(s[2], 0)
    IN  IF PGe(r2, d) THEN <<PDblAdd(s[1], 1), PSub(r2, d), s[3] + 1>>
        ELSE <<PDblAdd(s[1], 0), r2, s[3] + 1>>

\* Long division until the quotient has 53 significant bits.
RECURSIVE DivBits(_, _)
DivBits(s, d) ==
    IF s[1][1] >= 2 ^ 25 THEN s ELSE DivBits(DivStep(s, d), d)

\* a / b on doubles, rounded to nearest, ties to even.  The quotient of
\* the two significands lies in (1/2, 2).
FloatDiv(a, b) ==
    LET big  == PGe(a.m, b.m)
        s0   == IF big THEN <<<<0, 1>>, PSub(a.m, b.m), 0>> ELSE <<<<0, 0>>, a.m, 0>>
        qr   == DivBits(s0, b.m)
        rnd  == DivStep(<<<<0, 0>>, qr[2], 0>>, b.m)
        up   == rnd[1][2] = 1 /\ (~PIsZero(rnd[2]) \/ qr[1][2] % 2 = 1)
        sig  == IF up THEN PInc(qr[1]) ELSE qr[1]
        e    == a.e - b.e - qr[3]
    IN  IF sig[1] >= 2 ^ 26 THEN [m |-> <<2 ^ 25, 0>>, e |-> e + 1]
        ELSE [m |-> sig, e |-> e]

\* math.floor of a positive double whose floor is below 2^31.
FloatFloor(f) ==
    LET k == 0 - f.e
    IN  IF k >= 53 THEN 0
        ELSE IF k >= 27 THEN f.m[1] \div (2 ^ (k - 27))
        ELSE f.m[1] * (2 ^ (27 - k)) + (f.m[2] \div (2 ^ k))


(***************************************************************************)
(* Strings.  Texts are TLA+ strings; a file extension is a sequence of     *)
(* one-character strings so that lstrip('.') and lower() can be computed.  *)
(***************************************************************************)
Digit(d) == <<"0", "1", "2", "3", "4", "5", "6", "7", "8", "9">>[d + 1]

\* str(n) of a non-negative integer, as an f-string formats it.
RECURSIVE Dec(_)
Dec(n) == IF n < 10 THEN Digit(n) ELSE Dec(n \div 10) \o Digit(n % 10)

UpperChars == <<"A", "B", "C", "D", "E", "F", "G", "H", "I", "J", "K", "L", "M",
                "N", "O", "P", "Q", "R", "S", "T", "U", "V", "W", "X", "Y", "Z">>
LowerChars == <<"a", "b", "c", "d", "e", "f", "g", "h", "i", "j", "k", "l", "m",
                "n", "o", "p", "q", "r", "s", "t", "u", "v", "w", "x", "y", "z">>

LowerChar(c) ==
    IF \E i \in 1..26 : UpperChars[i] = c
    THEN LowerChars[CHOOSE i \in 1..26 : UpperChars[i] = c]
    ELSE c

\* str.lower()
Lower(cs) == [i \in 1..Len(cs) |-> LowerChar(cs[i])]

\* str.lstrip('.')
RECURSIVE LStripDot(_)
LStripDot(cs) ==
    IF cs # <<>> /\ Head(cs) = "." THEN LStripDot(Tail(cs)) ELSE cs

\* The string spelled by a sequence of characters.
RECURSIVE StrOf(_)
StrOf(cs) == IF cs = <<>> THEN "" ELSE Head(cs) \o StrOf(Tail(cs))

\* Mutant of JoinParts: "\n".join(parts).
RECURSIVE JoinSingleNewline(_)
JoinSingleNewline(ps) ==
    IF ps = <<>> THEN ""
    ELSE IF Len(ps) = 1 THEN ps[1]
    ELSE ps[1] \o "\n" \o JoinSingleNewline(Tail(ps))

\* "\n\n".join(parts)
RECURSIVE JoinParts(_)
JoinParts(ps) ==
    IF ps = <<>> THEN ""
    ELSE IF Len(ps) = 1 THEN ps[1]
    ELSE ps[1] \o "\n\n" \o JoinParts(Tail(ps))

(***************************************************************************)
(* Program constants.                                                      *)
(***************************************************************************)
max_bytes == 20 * 1024 * 1024

MinChunkMs == 1000

chunk_ms == 5 * 60 * 1000

MiB == 1024 * 1024

\* The Transcriber object: its attributes max_bytes and model_name.
VARIABLE self

\* The object __init__ builds when the API key is set.
Transcriber(model_name) == [model_name |-> model_name, max_bytes |-> max_bytes]

\* Model names a Transcriber is built with; the first is the default.
ModelNames == {"whisper-1", "gpt-4o-transcribe"}

(***************************************************************************)
(* Pure parts of the code.                                                 *)
(***************************************************************************)
\* Mutant of IsSmall: the boundary is excluded.
IsSmallStrict(size) == size < self.max_bytes

\* transcribe's size gate: the file is submitted whole.
IsSmall(size) == size <= self.max_bytes

\* ext = ext.lstrip('.').lower()
NormExt(ext) == Lower(LStripDot(ext))

\* Mutant of UsesDurationSplit: the extension is compared as spelled.
UsesDurationSplitAsSpelled(ext) == LStripDot(ext) = <<"m", "4", "a">>

\* The duration planner is chosen for m4a only.
UsesDurationSplit(ext) == NormExt(ext) = <<"m", "4", "a">>

\* The export format of the byte-budget planner: ext or 'wav'.
ExportFormat(ext) == IF NormExt(ext) = <<>> THEN <<"w", "a", "v">> ELSE NormExt(ext)

\* Mutant of ChunkStride: the one-second safeguard is missing.
ChunkStrideUnclamped(size, duration_ms) ==
    FloatFloor(FloatDiv(FloatOfInt(self.max_bytes),
                        FloatDiv(FloatOfInt(size), FloatOfInt(duration_ms))))

\* Mutant of ChunkStride: the quotient is rounded up.
ChunkStrideRoundedUp(size, duration_ms) ==
    LET bytes_per_ms == FloatDiv(FloatOfInt(size), FloatOfInt(duration_ms))
        max_ms       == FloatFloor(FloatDiv(FloatOfInt(self.max_bytes), bytes_per_ms)) + 1
    IN  IF max_ms < MinChunkMs THEN MinChunkMs ELSE max_ms

\* max_ms_per_chunk of the byte-budget planner, in float arithmetic.
ChunkStride(size, duration_ms) ==
    LET bytes_per_ms == FloatDiv(FloatOfInt(size), FloatOfInt(duration_ms))
        max_ms       == FloatFloor(FloatDiv(FloatOfInt(self.max_bytes), bytes_per_ms))
    IN  IF max_ms < MinChunkMs THEN MinChunkMs ELSE max_ms

\* bio.name of the chunk starting at millisecond i.
ChunkName(i, stride, ext) ==
    "part_" \o Dec(i \div stride) \o "." \o StrOf(ExportFormat(ext))

\* audio[a:b] covers [a, min(b, duration)).
\* Mutant of SliceEnd: the last window is not cut at the end of the audio.
SliceEndUnclamped(b, duration_ms) == b

SliceEnd(b, duration_ms) == IF b < duration_ms THEN b ELSE duration_ms

\* getattr(resp, "text", "")
GetText(resp) == IF resp.kind = "text" THEN resp.val ELSE ""

\* Mutant of Placeholder: the chunk is numbered from 1.
PlaceholderOneBased(i, desc) ==
    "[transcription error on part " \o Dec(i + 1) \o ": " \o desc \o "]"

\* The entry recorded for a failed chunk.
Placeholder(i, desc) ==
    "[transcription error on part " \o Dec(i) \o ": " \o desc \o "]"

\* The message of the error raised when the size check fails.
AccessMessage(path, desc) ==
    "Could not access file '" \o path \o "': " \o desc


(***************************************************************************)
(* Inputs: the audio assets and the answers of the environment (file       *)
(* system, decoder, transcription service).                                *)
(***************************************************************************)
MaxM4aUnits == 3

M4aUnitMs == 4 * 60 * 1000

Asset(path, ext, size, dur) ==
    [path |-> path, ext |-> ext, size |-> size, dur |-> dur]

SmallAssets ==
    { Asset("in/short.wav", <<".", "w", "a", "v">>, 5 * MiB, 60000),
      Asset("in/edge.mp3", <<".", "m", "p", "3">>, max_bytes, 600000),
      Asset("in/memo.m4a", <<".", "m", "4", "a">>, max_bytes - 1, 720000),
      Asset("in/blank.wav", <<".", "w", "a", "v">>, 1 * MiB, 0) }

\* Oversized assets planned by the byte-budget strategy.
BytesAssets ==
    { Asset("in/talk.wav", <<".", "w", "a", "v">>, 25 * MiB, 600000),
      Asset("in/dense.wav", <<".", "w", "a", "v">>, 40 * MiB, 2038),
      Asset("in/burst.mp3", <<".", "m", "p", "3">>, 25 * MiB, 1000),
      Asset("in/empty.wav", <<".", "w", "a", "v">>, 25 * MiB, 0),
      Asset("in/OVER.WAV", <<".", "W", "A", "V">>, max_bytes + 1, 1500),
      Asset("in/raw", <<>>, 21 * MiB, 3000),
      Asset("in/clip.mp4", <<".", "m", "p", "4">>, 25 * MiB, 1000) }

\* Oversized assets planned by the duration strategy.
DurationAssets ==
    { Asset("in/call.m4a", <<".", "m", "4", "a">>, 25 * MiB, k * M4aUnitMs) :
          k \in 0..MaxM4aUnits }
    \cup { Asset("in/CALL.M4A", <<".", "M", "4", "A">>, 30 * MiB, 2 * M4aUnitMs) }

Assets == SmallAssets \cup BytesAssets \cup DurationAssets

Texts == {"alpha", "beta"}

ServiceErrors == {"timeout"}

\* What one call of client.audio.transcriptions.create can give: a response
\* with a text, a response without one, or a raised error.
Responses ==
    { [kind |-> "text", val |-> t] : t \in Texts }
    \cup { [kind |-> "notext", val |-> ""] }
    \cup { [kind |-> "error", val |-> e] : e \in ServiceErrors }

StatError == "[Errno 2] No such file or directory"

OpenError == "[Errno 13] Permission denied"

\* str(e) of the OSError of a file operation: the message names the file.
OsErrorStr(desc, path) == desc \o ": '" \o path \o "'"

\* tempfile.NamedTemporaryFile: a fresh name per call of it.
TempPath(n) == "/tmp/tmp" \o Dec(n) \o ".mp4"

(***************************************************************************)
(* State.                                                                  *)
(***************************************************************************)
VARIABLES
    cli,                 \* the command line program's state, NoCli when not run
    asset,               \* the audio file transcribe is called on
    pc,                  \* position in transcribe
    route,               \* "none", "direct", "fallback" or "segments"
    file_size,           \* transcribe's file_size
    plan,                \* the running planner's locals
    chunks,              \* transcribe's chunks
    idx,                 \* index of the chunk being processed
    part_text,           \* part_text of the current iteration
    temp_file_to_delete, \* a path, or "" for None
    parts,               \* transcribe's parts
    outcome,             \* how the call ended: returned text or raised error
    disk,                \* temporary files that exist
    tmp_seq,             \* number of temporary names handed out
    inflight,            \* unit whose submission is in progress, or NoUnit
    log                  \* history of the calls made to the environment

vars == <<self, cli, asset, pc, route, file_size, plan, chunks, idx, part_text,
          temp_file_to_delete, parts, outcome, disk, tmp_seq, inflight, log>>

\* Units of work: the whole file, or chunk k >= 0.
Whole == 0 - 1
NoUnit == 0 - 2

NoPlan == [kind |-> "none", duration_ms |-> 0, stride |-> 0, pos |-> 0, acc |-> <<>>]

\* The command line program is not running.
NoCli == [pc |-> "off"]

NoOutcome == [kind |-> "none", type |-> "", val |-> ""]
Returned(text) == [kind |-> "returned", type |-> "str", val |-> text]
Raised(type, msg) == [kind |-> "raised", type |-> type, val |-> msg]

Event(ev, unit, kind, val) == [ev |-> ev, unit |-> unit, kind |-> kind, val |-> val]

Init ==
    /\ self \in { Transcriber(m) : m \in ModelNames }
    /\ cli = NoCli
    /\ asset \in Assets
    /\ pc = "size_check"
    /\ route = "none"
    /\ file_size = 0
    /\ plan = NoPlan
    /\ chunks = <<>>
    /\ idx = 0
    /\ part_text = ""
    /\ temp_file_to_delete = ""
    /\ parts = <<>>
    /\ outcome = NoOutcome
    /\ disk = {}
    /\ tmp_seq = 0
    /\ inflight = NoUnit
    /\ log = <<>>


(***************************************************************************)
(* transcribe: size check and the whole-file submission.                   *)
(***************************************************************************)
\* Mutant of StatFailed: the error of getsize is swallowed.
StatFailedIgnored(desc) == [pc |-> "whole_open", outcome |-> NoOutcome]

\* except OSError: raise FileNotFoundError("Could not access file ...")
StatFailed(desc) ==
    [pc |-> "done",
     outcome |-> Raised("FileNotFoundError", AccessMessage(asset.path, desc))]

\* os.path.getsize(audio_path), then the size gate.
SizeCheck ==
    /\ pc = "size_check"
    /\ \E ok \in BOOLEAN :
         IF ok
         THEN /\ file_size' = asset.size
              /\ log' = Append(log, Event("stat", Whole, "ok", ""))
              /\ pc' = IF IsSmall(asset.size) THEN "whole_open" ELSE "dispatch"
              /\ route' = IF IsSmall(asset.size) THEN "direct" ELSE route
              /\ outcome' = outcome
         ELSE /\ log' = Append(log, Event("stat", Whole, "err",
                                          OsErrorStr(StatError, asset.path)))
              /\ pc' = StatFailed(OsErrorStr(StatError, asset.path)).pc
              /\ outcome' = StatFailed(OsErrorStr(StatError, asset.path)).outcome
              /\ UNCHANGED <<file_size, route>>
    /\ UNCHANGED <<self, cli, asset, plan, chunks, idx, part_text, temp_file_to_delete,
                   parts, disk, tmp_seq, inflight>>

\* with open(audio_path, "rb") as audio_file: an error of open is not caught.
WholeOpen ==
    /\ pc = "whole_open"
    /\ \E ok \in BOOLEAN :
         IF ok
         THEN /\ log' = Append(log, Event("open", Whole, "ok", asset.path))
              /\ pc' = "whole_call"
              /\ outcome' = outcome
         ELSE /\ log' = Append(log, Event("open", Whole, "err",
                                          OsErrorStr(OpenError, asset.path)))
              /\ pc' = "done"
              /\ outcome' = Raised("PermissionError", OsErrorStr(OpenError, asset.path))
    /\ UNCHANGED <<self, cli, asset, route, file_size, plan, chunks, idx, part_text,
                   temp_file_to_delete, parts, disk, tmp_seq, inflight>>

\* client.audio.transcriptions.create(file=audio_file, ...) is called.
WholeCall ==
    /\ pc = "whole_call"
    /\ inflight' = Whole
    /\ log' = Append(log, Event("submit", Whole, self.model_name, asset.path))
    /\ pc' = "whole_wait"
    /\ UNCHANGED <<self, cli, asset, route, file_size, plan, chunks, idx, part_text,
                   temp_file_to_delete, parts, outcome, disk, tmp_seq>>

\* Mutant of WholeResult: the error is caught and turned into a placeholder.
WholeResultPlaceholder(resp) ==
    IF resp.kind = "error" THEN Returned(Placeholder(0, resp.val))
    ELSE Returned(GetText(resp))

\* The end of the whole-file path: return the text, or let the error go up.
WholeResult(resp) ==
    IF resp.kind = "error" THEN Raised("ServiceError", resp.val)
    ELSE Returned(GetText(resp))

\* Mutant of WholeReturn: a failed whole-file submission is made once more.
WholeReturnRetry ==
    /\ pc = "whole_wait"
    /\ \E resp \in Responses :
         /\ log' = log \o << Event("response", Whole, resp.kind, resp.val),
                             Event("close", Whole, "ok", asset.path) >>
         /\ IF resp.kind = "error" /\ Len(log) < 6
            THEN pc' = "whole_open" /\ outcome' = outcome
            ELSE pc' = "done" /\ outcome' = WholeResult(resp)
    /\ inflight' = NoUnit
    /\ UNCHANGED <<self, cli, asset, route, file_size, plan, chunks, idx, part_text,
                   temp_file_to_delete, parts, disk, tmp_seq>>

WholeReturn ==
    /\ pc = "whole_wait"
    /\ \E resp \in Responses :
         /\ log' = log \o << Event("response", Whole, resp.kind, resp.val),
                             Event("close", Whole, "ok", asset.path) >>
         /\ outcome' = WholeResult(resp)
    /\ inflight' = NoUnit
    /\ pc' = "done"
    /\ UNCHANGED <<self, cli, asset, route, file_size, plan, chunks, idx, part_text,
                   temp_file_to_delete, parts, disk, tmp_seq>>

(***************************************************************************)
(* Planning: _split_audio_into_chunks and _split_audio_by_duration, called *)
(* inside transcribe's try/except.                                         *)
(***************************************************************************)
\* Mutant of PlanFailed: the planning error is raised to the caller.
PlanFailedRaise(msg) ==
    [pc |-> "done", route |-> "none", outcome |-> Raised("ValueError", msg)]

\* except Exception: fall back to transcribing the whole file.
PlanFailed(msg) ==
    [pc |-> "whole_open", route |-> "fallback", outcome |-> NoOutcome]

\* A list, the value a planner returns to a caller other than transcribe.
ReturnedList == [kind |-> "returned", type |-> "list", val |-> ""]

\* Where an error raised inside a planner goes: to the except clause of
\* transcribe, or to the caller when the planner was called on its own.
\* The two checks of the prologues raise ValueError.
PlanRaise(msg) ==
    IF route = "planner"
    THEN [pc |-> "done", route |-> route,
          outcome |-> Raised(IF msg \in {"File does not need splitting",
                                         "Audio duration is zero"}
                             THEN "ValueError" ELSE "Exception", msg)]
    ELSE PlanFailed(msg)

\* The choice of the planner by extension.
Dispatch ==
    /\ pc = "dispatch"
    /\ LET kind == IF UsesDurationSplit(asset.ext) THEN "duration" ELSE "bytes"
       IN  /\ plan' = [NoPlan EXCEPT !.kind = kind]
           /\ log' = Append(log, Event("plan", Whole, kind, ""))
    /\ pc' = "plan_load"
    /\ UNCHANGED <<self, cli, asset, route, file_size, chunks, idx, part_text,
                   temp_file_to_delete, parts, outcome, disk, tmp_seq, inflight>>

\* Mutant of PlanStride: the duration planner sizes its chunks by bytes too.
PlanStrideByBytes(kind, size, duration_ms) == ChunkStride(size, duration_ms)

\* The stride of the running planner.
PlanStride(kind, size, duration_ms) ==
    IF kind = "duration" THEN chunk_ms ELSE ChunkStride(size, duration_ms)

\* Mutant of NeedsNoSplit: the byte-budget planner accepts any size.
NeedsNoSplitNever(kind, size) == FALSE

\* The byte-budget planner's own size check, made before anything is decoded.
NeedsNoSplit(kind, size) == kind = "bytes" /\ size <= self.max_bytes

\* Mutant of LoadError: the duration planner does not look at the duration.
LoadErrorDurationUnchecked(kind, size, decoded, duration_ms) ==
    IF NeedsNoSplit(kind, size) THEN "File does not need splitting"
    ELSE IF ~decoded THEN "Decoding failed"
    ELSE IF duration_ms <= 0 /\ kind = "bytes" THEN "Audio duration is zero"
    ELSE ""

\* The planner's prologue: size check (byte-budget only), decoding and the
\* zero-duration check.  "" stands for no error.
LoadError(kind, size, decoded, duration_ms) ==
    IF NeedsNoSplit(kind, size) THEN "File does not need splitting"
    ELSE IF ~decoded THEN "Decoding failed"
    ELSE IF duration_ms <= 0 THEN "Audio duration is zero"
    ELSE ""

\* The prologue logs the size check when it rejects, the decoding otherwise.
PlanLoad ==
    /\ pc = "plan_load"
    /\ \E decoded \in IF NeedsNoSplit(plan.kind, asset.size) THEN {FALSE} ELSE BOOLEAN :
         LET err == LoadError(plan.kind, asset.size, decoded, asset.dur)
         IN  /\ log' = Append(log, Event(IF NeedsNoSplit(plan.kind, asset.size)
                                         THEN "size" ELSE "decode", Whole,
                                         IF err = "" THEN "ok" ELSE "err", err))
             /\ IF err = ""
                THEN /\ plan' = [plan EXCEPT
                                   !.duration_ms = asset.dur,
                                   !.stride = PlanStride(plan.kind, asset.size, asset.dur)]
                     /\ pc' = "plan_loop"
                     /\ UNCHANGED <<route, outcome>>
                ELSE /\ pc' = PlanRaise(err).pc
                     /\ route' = PlanRaise(err).route
                     /\ outcome' = PlanRaise(err).outcome
                     /\ plan' = plan
    /\ UNCHANGED <<self, cli, asset, file_size, chunks, idx, part_text,
                   temp_file_to_delete, parts, disk, tmp_seq, inflight>>

MemChunk(name, start, stop) ==
    [kind |-> "mem", name |-> name, path |-> "", start |-> start, stop |-> stop]

FileChunk(path, start, stop) ==
    [kind |-> "file", name |-> "", path |-> path, start |-> start, stop |-> stop]

\* One iteration of the byte-budget planner's loop: export to a BytesIO.
PlanChunkBytes ==
    /\ pc = "plan_loop"
    /\ plan.kind = "bytes"
    /\ plan.pos < plan.duration_ms
    /\ LET k    == Len(plan.acc)
           name == ChunkName(plan.pos, plan.stride, asset.ext)
       IN  \E ok \in BOOLEAN :
             /\ log' = Append(log, Event("export", k, IF ok THEN "ok" ELSE "err", name))
             /\ IF ok
                THEN /\ plan' = [plan EXCEPT
                                   !.acc = Append(@, MemChunk(name, plan.pos,
                                              SliceEnd(plan.pos + plan.stride, plan.duration_ms))),
                                   !.pos = @ + plan.stride]
                     /\ UNCHANGED <<pc, route, outcome>>
                ELSE /\ pc' = PlanRaise("Export failed").pc
                     /\ route' = PlanRaise("Export failed").route
                     /\ outcome' = PlanRaise("Export failed").outcome
                     /\ plan' = plan
    /\ UNCHANGED <<self, cli, asset, file_size, chunks, idx, part_text,
                   temp_file_to_delete, parts, disk, tmp_seq, inflight>>

\* One iteration of the duration planner's loop: a temporary file is
\* created, then the chunk is exported to it.
PlanChunkFile ==
    /\ pc = "plan_loop"
    /\ plan.kind = "duration"
    /\ plan.pos < plan.duration_ms
    /\ LET k    == Len(plan.acc)
           path == TempPath(tmp_seq)
       IN  \E res \in {"ok", "mktemp", "export"} :
             IF res = "mktemp"
             THEN /\ log' = Append(log, Event("mktemp", k, "err", ""))
                  /\ pc' = PlanRaise("No space left on device").pc
                  /\ route' = PlanRaise("No space left on device").route
                  /\ outcome' = PlanRaise("No space left on device").outcome
                  /\ UNCHANGED <<plan, disk, tmp_seq>>
             ELSE /\ disk' = disk \cup {path}
                  /\ tmp_seq' = tmp_seq + 1
                  /\ log' = log \o << Event("mktemp", k, "ok", path),
                                      Event("export", k,
                                            IF res = "ok" THEN "ok" ELSE "err", path) >>
                  /\ IF res = "ok"
                     THEN /\ plan' = [plan EXCEPT
                                        !.acc = Append(@, FileChunk(path, plan.pos,
                                                   SliceEnd(plan.pos + plan.stride, plan.duration_ms))),
                                        !.pos = @ + plan.stride]
                          /\ UNCHANGED <<pc, route, outcome>>
                     ELSE /\ pc' = PlanRaise("Export failed").pc
                          /\ route' = PlanRaise("Export failed").route
                          /\ outcome' = PlanRaise("Export failed").outcome
                          /\ plan' = plan
    /\ UNCHANGED <<self, cli, asset, file_size, chunks, idx, part_text,
                   temp_file_to_delete, parts, inflight>>

\* The planner returns its list: chunks is bound, parts = [].
PlanReturn ==
    /\ pc = "plan_loop"
    /\ plan.pos >= plan.duration_ms
    /\ chunks' = plan.acc
    /\ parts' = <<>>
    /\ idx' = 0
    /\ IF route = "planner"
       THEN route' = route /\ pc' = "done" /\ outcome' = ReturnedList
       ELSE route' = "segments" /\ pc' = "seg_begin" /\ outcome' = outcome
    /\ UNCHANGED <<self, cli, asset, file_size, plan, part_text, temp_file_to_delete,
                   disk, tmp_seq, inflight, log>>


(***************************************************************************)
(* transcribe: the loop over the chunks and the join.                      *)
(***************************************************************************)
\* The outcomes open() can have on a temporary file.
OpenOutcomes(path) == IF path \in disk THEN {"ok", OpenError} ELSE {StatError}

\* Mutant of SegBegin: for a chunk in memory, the file to clean up is the
\* audio file itself.
SegBeginCleansSource ==
    /\ pc = "seg_begin"
    /\ idx < Len(chunks)
    /\ LET c == chunks[idx + 1]
       IN  IF c.kind = "file"
           THEN /\ temp_file_to_delete' = c.path
                /\ \E res \in OpenOutcomes(c.path) :
                     IF res = "ok"
                     THEN /\ log' = Append(log, Event("open", idx, "ok", c.path))
                          /\ part_text' = ""
                          /\ pc' = "seg_call"
                     ELSE /\ log' = Append(log, Event("open", idx, "err",
                                                      OsErrorStr(res, c.path)))
                          /\ part_text' = Placeholder(idx, OsErrorStr(res, c.path))
                          /\ pc' = "seg_finally"
           ELSE /\ temp_file_to_delete' = asset.path
                /\ part_text' = ""
                /\ pc' = "seg_call"
                /\ log' = log
    /\ UNCHANGED <<self, cli, asset, route, file_size, plan, chunks, idx, parts, outcome,
                   disk, tmp_seq, inflight>>

\* Mutant of SegBegin: a chunk whose temporary file cannot be opened gets
\* its placeholder and the loop goes to the next chunk without the finally.
SegBeginSkipsCleanup ==
    /\ pc = "seg_begin"
    /\ idx < Len(chunks)
    /\ LET c == chunks[idx + 1]
       IN  IF c.kind = "file"
           THEN /\ temp_file_to_delete' = c.path
                /\ \E res \in OpenOutcomes(c.path) :
                     IF res = "ok"
                     THEN /\ log' = Append(log, Event("open", idx, "ok", c.path))
                          /\ part_text' = ""
                          /\ pc' = "seg_call"
                          /\ UNCHANGED <<idx, parts>>
                     ELSE /\ log' = Append(log, Event("open", idx, "err",
                                                      OsErrorStr(res, c.path)))
                          /\ part_text' = Placeholder(idx, OsErrorStr(res, c.path))
                          /\ parts' = Append(parts, Placeholder(idx, OsErrorStr(res, c.path)))
                          /\ idx' = idx + 1
                          /\ pc' = "seg_begin"
           ELSE /\ temp_file_to_delete' = ""
                /\ part_text' = ""
                /\ pc' = "seg_call"
                /\ log' = log
                /\ UNCHANGED <<idx, parts>>
    /\ UNCHANGED <<self, cli, asset, route, file_size, plan, chunks, outcome,
                   disk, tmp_seq, inflight>>

\* Start of an iteration: part_text = "", temp_file_to_delete = None, then
\* open(chunk_item, 'rb') for a path, chunk_item.seek(0) for a BytesIO.
\* An error of open is caught by the iteration's except clause.
SegBegin ==
    /\ pc = "seg_begin"
    /\ idx < Len(chunks)
    /\ LET c == chunks[idx + 1]
       IN  IF c.kind = "file"
           THEN /\ temp_file_to_delete' = c.path
                /\ \E res \in OpenOutcomes(c.path) :
                     IF res = "ok"
                     THEN /\ log' = Append(log, Event("open", idx, "ok", c.path))
                          /\ part_text' = ""
                          /\ pc' = "seg_call"
                     ELSE /\ log' = Append(log, Event("open", idx, "err",
                                                      OsErrorStr(res, c.path)))
                          /\ part_text' = Placeholder(idx, OsErrorStr(res, c.path))
                          /\ pc' = "seg_finally"
           ELSE /\ temp_file_to_delete' = ""
                /\ part_text' = ""
                /\ pc' = "seg_call"
                /\ log' = log
    /\ UNCHANGED <<self, cli, asset, route, file_size, plan, chunks, idx, parts, outcome,
                   disk, tmp_seq, inflight>>

\* client.audio.transcriptions.create(file=..., ...) is called for the chunk.
\* Mutant of SegCall: the temporary file is removed as soon as it is open,
\* before the request is sent.
SegCallRemovesFirst ==
    /\ pc = "seg_call"
    /\ inflight' = idx
    /\ log' = IF chunks[idx + 1].kind = "file"
              THEN log \o << Event("remove", idx, "ok", chunks[idx + 1].path),
                             Event("submit", idx, self.model_name, chunks[idx + 1].path) >>
              ELSE Append(log, Event("submit", idx, self.model_name, chunks[idx + 1].name))
    /\ disk' = IF chunks[idx + 1].kind = "file" THEN disk \ {chunks[idx + 1].path} ELSE disk
    /\ pc' = "seg_wait"
    /\ UNCHANGED <<self, cli, asset, route, file_size, plan, chunks, idx, part_text,
                   temp_file_to_delete, parts, outcome, tmp_seq>>

\* Mutant of SegCall: the request is sent and the loop goes on without
\* waiting for its outcome.
SegCallAsync ==
    /\ pc = "seg_call"
    /\ inflight' = idx
    /\ log' = Append(log, Event("submit", idx, self.model_name,
                                IF chunks[idx + 1].kind = "file"
                                THEN chunks[idx + 1].path ELSE chunks[idx + 1].name))
    /\ pc' = "seg_finally"
    /\ UNCHANGED <<self, cli, asset, route, file_size, plan, chunks, idx, part_text,
                   temp_file_to_delete, parts, outcome, disk, tmp_seq>>

SegCall ==
    /\ pc = "seg_call"
    /\ inflight' = idx
    /\ log' = Append(log, Event("submit", idx, self.model_name,
                                IF chunks[idx + 1].kind = "file"
                                THEN chunks[idx + 1].path ELSE chunks[idx + 1].name))
    /\ pc' = "seg_wait"
    /\ UNCHANGED <<self, cli, asset, route, file_size, plan, chunks, idx, part_text,
                   temp_file_to_delete, parts, outcome, disk, tmp_seq>>

\* part_text after the try/except of iteration i.
ChunkResult(i, resp) ==
    IF resp.kind = "error" THEN Placeholder(i, resp.val) ELSE GetText(resp)

\* Mutant of SegReturn: the error of a chunk's submission is not caught.
SegReturnRaises ==
    /\ pc = "seg_wait"
    /\ \E resp \in Responses :
         /\ log' = IF chunks[idx + 1].kind = "file"
                   THEN log \o << Event("response", idx, resp.kind, resp.val),
                                  Event("close", idx, "ok", chunks[idx + 1].path) >>
                   ELSE Append(log, Event("response", idx, resp.kind, resp.val))
         /\ part_text' = ChunkResult(idx, resp)
         /\ IF resp.kind = "error"
            THEN pc' = "done" /\ outcome' = Raised("ServiceError", resp.val)
            ELSE pc' = "seg_finally" /\ outcome' = outcome
    /\ inflight' = NoUnit
    /\ UNCHANGED <<self, cli, asset, route, file_size, plan, chunks, idx,
                   temp_file_to_delete, parts, disk, tmp_seq>>

SegReturn ==
    /\ pc = "seg_wait"
    /\ \E resp \in Responses :
         /\ log' = IF chunks[idx + 1].kind = "file"
                   THEN log \o << Event("response", idx, resp.kind, resp.val),
                                  Event("close", idx, "ok", chunks[idx + 1].path) >>
                   ELSE Append(log, Event("response", idx, resp.kind, resp.val))
         /\ part_text' = ChunkResult(idx, resp)
    /\ inflight' = NoUnit
    /\ pc' = "seg_finally"
    /\ UNCHANGED <<self, cli, asset, route, file_size, plan, chunks, idx,
                   temp_file_to_delete, parts, outcome, disk, tmp_seq>>

\* The outcomes os.remove can have.
RemoveOutcomes(path) == IF path \in disk THEN {"ok", OpenError} ELSE {StatError}

\* Mutant of SegFinally: a failed removal replaces the entry of the chunk.
SegFinallyMasks ==
    /\ pc = "seg_finally"
    /\ IF temp_file_to_delete # ""
       THEN \E res \in RemoveOutcomes(temp_file_to_delete) :
              /\ log' = Append(log, Event("remove", idx,
                                          IF res = "ok" THEN "ok" ELSE "err",
                                          temp_file_to_delete))
              /\ disk' = IF res = "ok" THEN disk \ {temp_file_to_delete} ELSE disk
              /\ parts' = Append(parts, IF res = "ok" THEN part_text
                                        ELSE Placeholder(idx, res))
       ELSE UNCHANGED <<log, disk>> /\ parts' = Append(parts, part_text)
    /\ idx' = idx + 1
    /\ pc' = "seg_begin"
    /\ UNCHANGED <<self, cli, asset, route, file_size, plan, chunks, part_text,
                   temp_file_to_delete, outcome, tmp_seq, inflight>>

\* Mutant of SegFinally: the error of a failed removal is not caught.
SegFinallyRaises ==
    /\ pc = "seg_finally"
    /\ IF temp_file_to_delete # ""
       THEN \E res \in RemoveOutcomes(temp_file_to_delete) :
              /\ log' = Append(log, Event("remove", idx,
                                          IF res = "ok" THEN "ok" ELSE "err",
                                          temp_file_to_delete))
              /\ disk' = IF res = "ok" THEN disk \ {temp_file_to_delete} ELSE disk
              /\ IF res = "ok"
                 THEN /\ parts' = Append(parts, part_text)
                      /\ idx' = idx + 1
                      /\ pc' = "seg_begin"
                      /\ outcome' = outcome
                 ELSE /\ pc' = "done"
                      /\ outcome' = Raised("OSError", OsErrorStr(res, temp_file_to_delete))
                      /\ UNCHANGED <<parts, idx>>
       ELSE /\ UNCHANGED <<log, disk, outcome>>
            /\ parts' = Append(parts, part_text)
            /\ idx' = idx + 1
            /\ pc' = "seg_begin"
    /\ UNCHANGED <<self, cli, asset, route, file_size, plan, chunks, part_text,
                   temp_file_to_delete, tmp_seq, inflight>>

\* finally: os.remove(temp_file_to_delete), its error swallowed; then
\* parts.append(part_text) and the next iteration.
SegFinally ==
    /\ pc = "seg_finally"
    /\ IF temp_file_to_delete # ""
       THEN \E res \in RemoveOutcomes(temp_file_to_delete) :
              /\ log' = Append(log, Event("remove", idx,
                                          IF res = "ok" THEN "ok" ELSE "err",
                                          temp_file_to_delete))
              /\ disk' = IF res = "ok" THEN disk \ {temp_file_to_delete} ELSE disk
       ELSE UNCHANGED <<log, disk>>
    /\ parts' = Append(parts, part_text)
    /\ idx' = idx + 1
    /\ pc' = "seg_begin"
    /\ UNCHANGED <<self, cli, asset, route, file_size, plan, chunks, part_text,
                   temp_file_to_delete, outcome, tmp_seq, inflight>>

\* Mutant of Join: after the last chunk the call waits and never returns.
JoinNever ==
    /\ pc = "seg_begin"
    /\ idx >= Len(chunks)
    /\ UNCHANGED <<self, cli, asset, pc, route, file_size, plan, chunks, idx, part_text,
                   temp_file_to_delete, parts, outcome, disk, tmp_seq, inflight, log>>

\* Mutant of Join: when a chunk failed, the whole file is submitted as well.
JoinOrFallback ==
    /\ pc = "seg_begin"
    /\ idx >= Len(chunks)
    /\ IF \E k \in 1..Len(parts) : parts[k] = Placeholder(k - 1, "timeout")
       THEN pc' = "whole_open" /\ outcome' = outcome /\ idx' = 0 /\ chunks' = <<>>
       ELSE pc' = "done" /\ outcome' = Returned(JoinParts(parts))
                        /\ idx' = idx /\ chunks' = chunks
    /\ UNCHANGED <<self, cli, asset, route, file_size, plan, part_text,
                   temp_file_to_delete, parts, disk, tmp_seq, inflight, log>>

\* combined = "\n\n".join(parts); return combined
Join ==
    /\ pc = "seg_begin"
    /\ idx >= Len(chunks)
    /\ outcome' = Returned(JoinParts(parts))
    /\ pc' = "done"
    /\ UNCHANGED <<self, cli, asset, route, file_size, plan, chunks, idx, part_text,
                   temp_file_to_delete, parts, disk, tmp_seq, inflight, log>>

Next ==
    \/ SizeCheck
    \/ WholeOpen
    \/ WholeCall
    \/ WholeReturn
    \/ Dispatch
    \/ PlanLoad
    \/ PlanChunkBytes
    \/ PlanChunkFile
    \/ PlanReturn
    \/ SegBegin
    \/ SegCall
    \/ SegReturn
    \/ SegFinally
    \/ Join

Spec == Init /\ [][Next]_vars


(***************************************************************************)
(* The byte-budget planner on its own: the states right after the size     *)
(* gate has sent an oversized asset to planning, over a grid of file sizes *)
(* and durations, followed by the planner's steps only.                    *)
(***************************************************************************)
MaxSizeFactor == 3

GridSizes ==
    { k * max_bytes : k \in 2..MaxSizeFactor }
    \cup { max_bytes + 1, 21 * MiB, 25 * MiB, 50 * MiB }

GridDurations ==
    { 500, 999, 1000, 1001, 1500, 2038, 2042, 2340, 3000, 3057, 600000, 3600000 }

GridAssets ==
    { Asset("in/grid.wav", <<".", "w", "a", "v">>, sz, d) :
          sz \in GridSizes, d \in GridDurations }
    \cup { Asset("in/GRID.MP3", <<".", "M", "P", "3">>, 50 * MiB, 3000),
           Asset("in/raw", <<>>, 25 * MiB, 2340) }

InitPlan ==
    /\ self \in { Transcriber(m) : m \in ModelNames }
    /\ cli = NoCli
    /\ asset \in GridAssets
    /\ pc = "dispatch"
    /\ route = "none"
    /\ file_size = asset.size
    /\ plan = NoPlan
    /\ chunks = <<>>
    /\ idx = 0
    /\ part_text = ""
    /\ temp_file_to_delete = ""
    /\ parts = <<>>
    /\ outcome = NoOutcome
    /\ disk = {}
    /\ tmp_seq = 0
    /\ inflight = NoUnit
    /\ log = << Event("stat", Whole, "ok", "") >>

NextPlan ==
    \/ Dispatch
    \/ PlanLoad
    \/ PlanChunkBytes
    \/ PlanReturn

SpecPlan == InitPlan /\ [][NextPlan]_vars


(***************************************************************************)
(* The planners called on their own, as a caller other than transcribe     *)
(* does: either planner on any asset, small, oversized or of zero          *)
(* duration.  An error of the planner ends the call with that error, a     *)
(* plan ends it with the list.                                             *)
(***************************************************************************)
InitSplit ==
    /\ self \in { Transcriber(m) : m \in ModelNames }
    /\ cli = NoCli
    /\ asset \in Assets
    /\ pc = "plan_load"
    /\ route = "planner"
    /\ file_size = 0
    /\ \E kind \in {"bytes", "duration"} :
         /\ plan = [NoPlan EXCEPT !.kind = kind]
         /\ log = << Event("plan", Whole, kind, "") >>
    /\ chunks = <<>>
    /\ idx = 0
    /\ part_text = ""
    /\ temp_file_to_delete = ""
    /\ parts = <<>>
    /\ outcome = NoOutcome
    /\ disk = {}
    /\ tmp_seq = 0
    /\ inflight = NoUnit

\* A call of transcribe or of a planner on its own.
InitCalls == Init \/ InitSplit

SpecCalls == InitCalls /\ [][Next]_vars

(***************************************************************************)
(* Two calls of transcribe, one after the other, on the same Transcriber   *)
(* and the same asset.  The history goes on, an "end" event holding what   *)
(* the first call left; the second call gets from the file system, the     *)
(* decoder and the service the answers the first one got, as long as it    *)
(* asks the same questions.  Temporary names are fresh in each call: what  *)
(* is still on disk is never handed out again.                             *)
(***************************************************************************)
MaxTwiceUnits == 2

TwiceAssets ==
    SmallAssets
    \cup { a \in BytesAssets : a.dur <= 600000 }
    \cup { Asset("in/call.m4a", <<".", "m", "4", "a">>, 25 * MiB, k * M4aUnitMs) :
              k \in 0..MaxTwiceUnits }

InitTwice ==
    /\ self \in { Transcriber(m) : m \in ModelNames }
    /\ cli = NoCli
    /\ asset \in TwiceAssets
    /\ pc = "size_check"
    /\ route = "none"
    /\ file_size = 0
    /\ plan = NoPlan
    /\ chunks = <<>>
    /\ idx = 0
    /\ part_text = ""
    /\ temp_file_to_delete = ""
    /\ parts = <<>>
    /\ outcome = NoOutcome
    /\ disk = {}
    /\ tmp_seq = 0
    /\ inflight = NoUnit
    /\ log = <<>>

\* What a finished call leaves to compare the next one with.
EndEvent == Event("end", Whole, outcome.kind,
                  [outcome |-> outcome, parts |-> parts, route |-> route])

\* Mutant of CallAgain: the result of the first call is kept and returned.
CallAgainCached ==
    /\ pc = "done"
    /\ \A i \in 1..Len(log) : log[i].ev # "end"
    /\ log' = Append(log, EndEvent)
    /\ UNCHANGED <<self, cli, asset, pc, route, file_size, plan, chunks, idx, part_text,
                   temp_file_to_delete, parts, outcome, disk, tmp_seq, inflight>>

\* transcribe is called a second time: its locals are new, the Transcriber
\* and the disk are what the first call left.
CallAgain ==
    /\ pc = "done"
    /\ \A i \in 1..Len(log) : log[i].ev # "end"
    /\ log' = Append(log, EndEvent)
    /\ pc' = "size_check"
    /\ route' = "none"
    /\ file_size' = 0
    /\ plan' = NoPlan
    /\ chunks' = <<>>
    /\ idx' = 0
    /\ part_text' = ""
    /\ temp_file_to_delete' = ""
    /\ parts' = <<>>
    /\ outcome' = NoOutcome
    /\ inflight' = NoUnit
    /\ tmp_seq' \in {tmp_seq} \cup (IF disk = {} THEN {0} ELSE {})
    /\ UNCHANGED <<self, cli, asset, disk>>

\* The history of the first call and of the second one.
EndAt == CHOOSE i \in 1..Len(log) : log[i].ev = "end"

SecondCall == \E i \in 1..Len(log) : log[i].ev = "end"

First == SubSeq(log, 1, EndAt - 1)

Second == SubSeq(log, EndAt + 1, Len(log))

\* The environment's answers, as opposed to what the program did.
AnswerEvents == {"stat", "decode", "mktemp", "export", "open", "response", "remove"}

\* The second call was answered as the first, wherever it asked the same.
Replayed ==
    SecondCall =>
        \A i \in 1..Len(Second) :
            (/\ i <= Len(First)
             /\ First[i].ev = Second[i].ev
             /\ First[i].unit = Second[i].unit
             /\ Second[i].ev \in AnswerEvents) =>
                /\ First[i].kind = Second[i].kind
                /\ Second[i].ev \in {"stat", "decode", "response"} =>
                      First[i].val = Second[i].val

NextTwice ==
    \/ Next /\ Replayed'
    \/ CallAgain

SpecTwice == InitTwice /\ [][NextTwice]_vars


(***************************************************************************)
(* The command line program, cli.py: main() over a folder of files.  File  *)
(* names are sequences of characters, so that lower(), endswith() and      *)
(* splitext() are computed as Python computes them.                        *)
(***************************************************************************)
\* str.endswith(suffix)
EndsWith(cs, suffix) ==
    /\ Len(cs) >= Len(suffix)
    /\ SubSeq(cs, Len(cs) - Len(suffix) + 1, Len(cs)) = suffix

supported_ext ==
    << <<".", "w", "a", "v">>, <<".", "m", "p", "3">>, <<".", "m", "4", "a">> >>

\* Mutant of Supported: the name is compared as it is spelled.
SupportedAsSpelled(audio_file) ==
    \E i \in 1..Len(supported_ext) : EndsWith(audio_file, supported_ext[i])

\* Mutant of Supported: the dot of the extension is not required.
SupportedWithoutDot(audio_file) ==
    \E i \in 1..Len(supported_ext) :
        EndsWith(Lower(audio_file), Tail(supported_ext[i]))

\* audio_file.lower().endswith(supported_ext)
Supported(audio_file) ==
    \E i \in 1..Len(supported_ext) : EndsWith(Lower(audio_file), supported_ext[i])

\* os.path.splitext of a name without a separator: the extension starts at
\* the last dot, unless only dots come before it.
SplitExt(cs) ==
    LET dots == { i \in 1..Len(cs) : cs[i] = "." }
        last == CHOOSE i \in dots : \A j \in dots : j <= i
    IN  IF dots = {} \/ (\A j \in 1..(last - 1) : cs[j] = ".")
        THEN <<cs, <<>> >>
        ELSE <<SubSeq(cs, 1, last - 1), SubSeq(cs, last, Len(cs))>>

\* The folders named on the command line.
input_folder == <<"i", "n">>

output_folder == "out"

\* os.path.join(folder, name)
PathJoin(folder, name) == folder \o "/" \o name

\* The files the input folder can hold: name, size in bytes, duration.
File(name, size, dur) == [name |-> name, size |-> size, dur |-> dur]

FolderFiles ==
    { File(<<"a", ".", "w", "a", "v">>, 5 * MiB, 60000),
      File(<<"B", ".", "M", "P", "3">>, max_bytes, 600000),
      File(<<"n", ".", "t", "x", "t">>, 1024, 0),
      File(<<"c", ".", "m", "4", "a">>, 25 * MiB, 240000),
      File(<<"e", ".", "W", "a", "v">>, 25 * MiB, 0),
      File(<<"d", ".", "w", "a", "v", ".", "b", "a", "k">>, 5 * MiB, 60000),
      File(<<"w", "a", "v">>, 5 * MiB, 60000),
      File(<<".", "m", "p", "3">>, 5 * MiB, 60000) }

FileNamed(name) == CHOOSE f \in FolderFiles : f.name = name

\* What os.listdir can return.
Listings ==
    { <<>>,
      << <<"a", ".", "w", "a", "v">>, <<"n", ".", "t", "x", "t">>,
         <<"B", ".", "M", "P", "3">> >>,
      << <<"w", "a", "v">>, <<"c", ".", "m", "4", "a">>,
         <<"d", ".", "w", "a", "v", ".", "b", "a", "k">> >>,
      << <<"e", ".", "W", "a", "v">>, <<".", "m", "p", "3">> >> }

\* The asset transcribe sees for a listed file: its path in the input
\* folder, the extension os.path.splitext finds in that path.
AssetOf(audio_file) ==
    Asset(PathJoin(StrOf(input_folder), StrOf(audio_file)),
          SplitExt(audio_file)[2],
          FileNamed(audio_file).size, FileNamed(audio_file).dur)

\* The Transcriber before the constructor has run.
NoTranscriber == [model_name |-> "", max_bytes |-> 0]


\* The variables of a transcribe call.
call_vars == <<asset, pc, route, file_size, plan, chunks, idx, part_text,
               temp_file_to_delete, parts, outcome, disk, tmp_seq, inflight, log>>

NoAsset == Asset("", <<>>, 0, 0)

\* main() is about to run: the command line's flags, what exists, the
\* listing os.listdir will return, and whether OPENAI_API_KEY is set.
InitCli ==
    /\ \E ie \in BOOLEAN, oe \in BOOLEAN, key \in BOOLEAN,
          en \in BOOLEAN, iv \in BOOLEAN, files \in Listings :
         cli = [pc |-> "start", input_exists |-> ie, output_exists |-> oe,
                key_set |-> key, enhance_for_reading |-> en,
                format_as_interview |-> iv, files |-> files, pos |-> 1,
                transcription |-> "", written |-> {}, hist |-> <<>>]
    /\ self = NoTranscriber
    /\ asset = NoAsset
    /\ pc = "idle"
    /\ route = "none"
    /\ file_size = 0
    /\ plan = NoPlan
    /\ chunks = <<>>
    /\ idx = 0
    /\ part_text = ""
    /\ temp_file_to_delete = ""
    /\ parts = <<>>
    /\ outcome = NoOutcome
    /\ disk = {}
    /\ tmp_seq = 0
    /\ inflight = NoUnit
    /\ log = <<>>

\* Mutant of CliSetup: the output folder is made before the input folder
\* is looked at.
CliSetupMakesFirst ==
    /\ cli.pc = "start"
    /\ LET made == IF cli.output_exists THEN <<>>
                   ELSE << Event("makedirs", "", "ok", output_folder) >>
       IN  IF ~cli.input_exists
           THEN /\ cli' = [cli EXCEPT !.pc = "returned", !.output_exists = TRUE,
                              !.hist = @ \o made \o
                                  << Event("error", "", "err", "Input folder does not exist") >>]
                /\ self' = self
           ELSE IF ~cli.key_set
           THEN /\ cli' = [cli EXCEPT !.pc = "raised", !.output_exists = TRUE,
                              !.hist = @ \o made]
                /\ self' = self
           ELSE /\ cli' = [cli EXCEPT !.pc = "loop", !.output_exists = TRUE,
                              !.hist = @ \o made \o << Event("Transcriber", "", "ok", "") >>]
                /\ self' = Transcriber("whisper-1")
    /\ UNCHANGED call_vars

\* Lines 18-25: the input folder must exist, the output folder is made
\* when missing, the Transcriber is built; its constructor raises when the
\* key is not set, and main has no handler for that.
CliSetup ==
    /\ cli.pc = "start"
    /\ IF ~cli.input_exists
       THEN /\ cli' = [cli EXCEPT !.pc = "returned",
                          !.hist = Append(@, Event("error", "", "err",
                                                   "Input folder does not exist"))]
            /\ self' = self
       ELSE IF ~cli.key_set
       THEN /\ cli' = [cli EXCEPT !.pc = "raised", !.output_exists = TRUE,
                          !.hist = IF cli.output_exists THEN @
                                   ELSE Append(@, Event("makedirs", "", "ok", output_folder))]
            /\ self' = self
       ELSE /\ cli' = [cli EXCEPT !.pc = "loop", !.output_exists = TRUE,
                          !.hist = (IF cli.output_exists THEN @
                                    ELSE Append(@, Event("makedirs", "", "ok", output_folder)))
                                   \o << Event("Transcriber", "", "ok", "") >>]
            /\ self' = Transcriber("whisper-1")
    /\ UNCHANGED call_vars

\* The loop's head on a file that is not audio: continue.
CliSkip ==
    /\ cli.pc = "loop"
    /\ cli.pos <= Len(cli.files)
    /\ ~Supported(cli.files[cli.pos])
    /\ cli' = [cli EXCEPT !.pos = @ + 1]
    /\ UNCHANGED <<self, call_vars>>

\* The loop's head on an audio file: transcriber.transcribe(audio_path)
\* begins, with new locals.
CliCall ==
    /\ cli.pc = "loop"
    /\ cli.pos <= Len(cli.files)
    /\ Supported(cli.files[cli.pos])
    /\ cli' = [cli EXCEPT !.pc = "in_transcribe",
                  !.hist = Append(@, Event("transcribe", StrOf(cli.files[cli.pos]), "call",
                                           PathJoin(StrOf(input_folder),
                                                    StrOf(cli.files[cli.pos]))))]
    /\ asset' = AssetOf(cli.files[cli.pos])
    /\ pc' = "size_check"
    /\ route' = "none"
    /\ file_size' = 0
    /\ plan' = NoPlan
    /\ chunks' = <<>>
    /\ idx' = 0
    /\ part_text' = ""
    /\ temp_file_to_delete' = ""
    /\ parts' = <<>>
    /\ outcome' = NoOutcome
    /\ inflight' = NoUnit
    /\ log' = <<>>
    /\ UNCHANGED <<self, disk, tmp_seq>>

\* The listing is exhausted: main returns.
CliReturn ==
    /\ cli.pc = "loop"
    /\ cli.pos > Len(cli.files)
    /\ cli' = [cli EXCEPT !.pc = "returned"]
    /\ UNCHANGED <<self, call_vars>>


\* Mutant of OnTranscribeError: the exception leaves main.
OnTranscribeErrorRaise == "raised"

\* except Exception around transcribe: log the error and continue.
OnTranscribeError == "loop"

\* Mutant of CliTranscribed: after the error is logged, the rest of the
\* loop body runs with the transcription that was left.
CliTranscribedFallsThrough ==
    /\ cli.pc = "in_transcribe"
    /\ pc = "done"
    /\ IF outcome.kind = "raised"
       THEN cli' = [cli EXCEPT !.pc = "save",
                       !.hist = Append(@, Event("error", StrOf(cli.files[cli.pos]),
                                                outcome.type, outcome.val))]
       ELSE cli' = [cli EXCEPT !.pc = "save", !.transcription = outcome.val,
                       !.hist = Append(@, Event("transcribed", StrOf(cli.files[cli.pos]),
                                                "ok", outcome.val))]
    /\ UNCHANGED <<self, call_vars>>

\* transcribe has ended: its exception is logged and the loop goes to the
\* next file, or its result is bound to transcription.
CliTranscribed ==
    /\ cli.pc = "in_transcribe"
    /\ pc = "done"
    /\ IF outcome.kind = "raised"
       THEN cli' = [cli EXCEPT !.pc = OnTranscribeError, !.pos = @ + 1,
                       !.hist = Append(@, Event("error", StrOf(cli.files[cli.pos]),
                                                outcome.type, outcome.val))]
       ELSE cli' = [cli EXCEPT !.pc = "save", !.transcription = outcome.val,
                       !.hist = Append(@, Event("transcribed", StrOf(cli.files[cli.pos]),
                                                "ok", outcome.val))]
    /\ UNCHANGED <<self, call_vars>>

\* os.path.join(output_folder, base_name + suffix) for the current file.
OutputName(audio_file, suffix) ==
    PathJoin(output_folder, StrOf(SplitExt(audio_file)[1]) \o suffix)

\* open(name, 'w') and write: the file holds the content afterwards.
WriteFile(files, name, content) ==
    { f \in files : f.name # name } \cup { [name |-> name, content |-> content] }

\* Mutant of CliSaveVerbatim: when the save fails, main goes to the next
\* file.
CliSaveVerbatimOrSkip ==
    /\ cli.pc = "save"
    /\ LET name == OutputName(cli.files[cli.pos], "_transcription.txt")
       IN  \E ok \in BOOLEAN :
             cli' = [cli EXCEPT
                       !.pc = IF ok THEN "enhance" ELSE "loop",
                       !.pos = IF ok THEN @ ELSE @ + 1,
                       !.written = IF ok THEN WriteFile(@, name, cli.transcription) ELSE @,
                       !.hist = Append(@, Event("write", StrOf(cli.files[cli.pos]),
                                                IF ok THEN "ok" ELSE "err", name))]
    /\ UNCHANGED <<self, call_vars>>

\* Lines 42-48: the verbatim transcript is saved; an error is logged.
CliSaveVerbatim ==
    /\ cli.pc = "save"
    /\ LET name == OutputName(cli.files[cli.pos], "_transcription.txt")
       IN  \E ok \in BOOLEAN :
             cli' = [cli EXCEPT
                       !.pc = "enhance",
                       !.written = IF ok THEN WriteFile(@, name, cli.transcription) ELSE @,
                       !.hist = Append(@, Event("write", StrOf(cli.files[cli.pos]),
                                                IF ok THEN "ok" ELSE "err", name))]
    /\ UNCHANGED <<self, call_vars>>

\* The text an enhancement returns for a transcript, when it returns.
Enhanced(label, transcription) == label \o ": " \o transcription

\* Mutant of CliOptional: a failure of the enhancement or of its save ends
\* the work on the file.
CliOptionalAborts(flag, method, label, suffix, next_pc, step) ==
    IF ~flag
    THEN cli' = [cli EXCEPT !.pc = next_pc, !.pos = @ + step]
    ELSE LET file == StrOf(cli.files[cli.pos])
             name == OutputName(cli.files[cli.pos], suffix)
         IN  \E res \in {"ok", "call_err", "write_err"} :
               cli' = [cli EXCEPT
                         !.pc = IF res = "ok" THEN next_pc ELSE "loop",
                         !.pos = IF res = "ok" THEN @ + step ELSE @ + 1,
                         !.written = IF res = "ok"
                                     THEN WriteFile(@, name, Enhanced(label, cli.transcription))
                                     ELSE @,
                         !.hist = @ \o
                            (IF res = "call_err"
                             THEN << Event(method, file, "err", cli.transcription) >>
                             ELSE << Event(method, file, "ok", cli.transcription),
                                     Event("write", file,
                                           IF res = "ok" THEN "ok" ELSE "err", name) >>)]

\* Mutant of CliOptional: the result of an enhancement replaces the
\* transcript, so the next enhancement works on it.
CliOptionalChained(flag, method, label, suffix, next_pc, step) ==
    IF ~flag
    THEN cli' = [cli EXCEPT !.pc = next_pc, !.pos = @ + step]
    ELSE LET file == StrOf(cli.files[cli.pos])
             name == OutputName(cli.files[cli.pos], suffix)
         IN  \E res \in {"ok", "call_err", "write_err"} :
               cli' = [cli EXCEPT
                         !.pc = next_pc,
                         !.pos = @ + step,
                         !.transcription = IF res = "call_err" THEN @
                                           ELSE Enhanced(label, @),
                         !.written = IF res = "ok"
                                     THEN WriteFile(@, name, Enhanced(label, cli.transcription))
                                     ELSE @,
                         !.hist = @ \o
                            (IF res = "call_err"
                             THEN << Event(method, file, "err", cli.transcription) >>
                             ELSE << Event(method, file, "ok", cli.transcription),
                                     Event("write", file,
                                           IF res = "ok" THEN "ok" ELSE "err", name) >>)]

\* One optional output (lines 51-60 and 63-73): the method is called with
\* the transcript and its result is written; an error of either is logged.
CliOptional(flag, method, label, suffix, next_pc, step) ==
    IF ~flag
    THEN cli' = [cli EXCEPT !.pc = next_pc, !.pos = @ + step]
    ELSE LET file == StrOf(cli.files[cli.pos])
             name == OutputName(cli.files[cli.pos], suffix)
         IN  \E res \in {"ok", "call_err", "write_err"} :
               cli' = [cli EXCEPT
                         !.pc = next_pc,
                         !.pos = @ + step,
                         !.written = IF res = "ok"
                                     THEN WriteFile(@, name, Enhanced(label, cli.transcription))
                                     ELSE @,
                         !.hist = @ \o
                            (IF res = "call_err"
                             THEN << Event(method, file, "err", cli.transcription) >>
                             ELSE << Event(method, file, "ok", cli.transcription),
                                     Event("write", file,
                                           IF res = "ok" THEN "ok" ELSE "err", name) >>)]

CliEnhance ==
    /\ cli.pc = "enhance"
    /\ CliOptional(cli.enhance_for_reading, "enhance_transcription", "Readable",
                   "_enhanced.txt", "interview", 0)
    /\ UNCHANGED <<self, call_vars>>

CliInterview ==
    /\ cli.pc = "interview"
    /\ CliOptional(cli.format_as_interview, "enhance_as_interview", "Interview",
                   "_enhanced_interview.txt", "loop", 1)
    /\ UNCHANGED <<self, call_vars>>

\* main() and the transcribe calls it makes.
NextCli ==
    \/ CliSetup
    \/ CliSkip
    \/ CliCall
    \/ cli.pc = "in_transcribe" /\ Next
    \/ CliTranscribed
    \/ CliSaveVerbatim
    \/ CliEnhance
    \/ CliInterview
    \/ CliReturn

SpecCli == InitCli /\ [][NextCli]_vars


(***************************************************************************)
(* Vocabulary of the properties: what the history of a call shows.         *)
(***************************************************************************)
Happened(ev, unit, kind) ==
    \E i \in 1..Len(log) : log[i].ev = ev /\ log[i].unit = unit /\ log[i].kind = kind

Count(ev) == Cardinality({ i \in 1..Len(log) : log[i].ev = ev })

CountOf(ev, unit) ==
    Cardinality({ i \in 1..Len(log) : log[i].ev = ev /\ log[i].unit = unit })

\* The response the service gave for a unit (there is at most one).
ResponseOf(unit) ==
    LET i == CHOOSE j \in 1..Len(log) : log[j].ev = "response" /\ log[j].unit = unit
    IN  [kind |-> log[i].kind, val |-> log[i].val]

Responded(unit) == \E i \in 1..Len(log) : log[i].ev = "response" /\ log[i].unit = unit

StatOk == Happened("stat", Whole, "ok")

StatErr == Happened("stat", Whole, "err")

\* Planning raised: the decoder, the prologue's checks, the creation of a
\* temporary file or an export failed.
PlanningFailed ==
    \E i \in 1..Len(log) :
        log[i].ev \in {"size", "decode", "mktemp", "export"} /\ log[i].kind = "err"

\* Temporary files created during the call.
CreatedTemps ==
    { log[i].val : i \in { j \in 1..Len(log) : log[j].ev = "mktemp" /\ log[j].kind = "ok" } }

\* floor(a * b / c) and the remainder, in exact integer arithmetic, without
\* forming the product (a * b exceeds the 32-bit range).
RECURSIVE MulDiv(_, _, _)
MulDiv(a, b, c) ==
    IF b = 0 THEN <<0, 0>>
    ELSE LET h == MulDiv(a, b \div 2, c)
             t == 2 * h[2] + (b % 2) * (a % c)
         IN  <<2 * h[1] + (b % 2) * (a \div c) + (t \div c), t % c>>

Max(a, b) == IF a >= b THEN a ELSE b


\* The outcome the whole-file path must have, given what the file system
\* and the service answered.
WholePathOutcome ==
    IF Happened("open", Whole, "err")
    THEN Raised("PermissionError", "[Errno 13] Permission denied: '" \o asset.path \o "'")
    ELSE IF ~Responded(Whole) THEN NoOutcome
    ELSE IF ResponseOf(Whole).kind = "error"
         THEN Raised("ServiceError", ResponseOf(Whole).val)
    ELSE IF ResponseOf(Whole).kind = "text" THEN Returned(ResponseOf(Whole).val)
    ELSE Returned("")

\* Number of chunks the planner produced.
PlannedCount ==
    Cardinality({ i \in 1..Len(log) : log[i].ev = "export" /\ log[i].kind = "ok" })

\* Planning was invoked and returned a plan.
PlanSucceeded == Count("plan") = 1 /\ ~PlanningFailed /\ pc \notin {"dispatch", "plan_load", "plan_loop"}

OpenErrorOf(k) ==
    log[CHOOSE i \in 1..Len(log) :
            log[i].ev = "open" /\ log[i].unit = k /\ log[i].kind = "err"].val

SegFailed(k) ==
    \/ Happened("open", k, "err")
    \/ (Responded(k) /\ ResponseOf(k).kind = "error")

SegSucceeded(k) == Responded(k) /\ ResponseOf(k).kind # "error"

\* The entry the specification prescribes for chunk k.
SegEntry(k) ==
    IF Happened("open", k, "err")
    THEN "[transcription error on part " \o Dec(k) \o ": " \o OpenErrorOf(k) \o "]"
    ELSE IF ResponseOf(k).kind = "error"
    THEN "[transcription error on part " \o Dec(k) \o ": " \o ResponseOf(k).val \o "]"
    ELSE IF ResponseOf(k).kind = "text" THEN ResponseOf(k).val
    ELSE ""

\* Entries 0..n-1 with a blank line between consecutive ones.
RECURSIVE ExpectedJoin(_)
ExpectedJoin(n) ==
    IF n = 0 THEN ""
    ELSE IF n = 1 THEN SegEntry(0)
    ELSE ExpectedJoin(n - 1) \o "\n\n" \o SegEntry(n - 1)

(***************************************************************************)
(* Properties.                                                             *)
(***************************************************************************)

\* C1 (as stated): for an asset of size <= SizeCeiling, once the call has
\* ended exactly one submission was issued, no planner was invoked and a
\* returned text is the text of that submission.
C1_ExactlyOneSubmission ==
    (pc = "done" /\ StatOk /\ asset.size <= max_bytes) =>
        /\ Count("submit") = 1
        /\ Count("plan") = 0
        /\ (outcome.kind = "returned" =>
              Responded(Whole) /\ outcome.val = ResponseOf(Whole).val)

\* C1 (amended): for an asset of size <= SizeCeiling (boundary included) no
\* planner is ever invoked and at most one submission, of the whole file, is
\* issued; at the end it is exactly one when the file could be opened, and
\* the call returns its text unmodified or propagates its error, and none
\* when open failed, in which case the error of open is raised.
C1_SizeGate ==
    (StatOk /\ asset.size <= max_bytes) =>
        /\ Count("plan") = 0
        /\ Count("submit") <= 1
        /\ CountOf("submit", Whole) = Count("submit")
        /\ (pc = "done" =>
              /\ Count("submit") = (IF Happened("open", Whole, "ok") THEN 1 ELSE 0)
              /\ outcome = WholePathOutcome)

C1_Witness ==
    /\ pc = "done"
    /\ asset.size = max_bytes
    /\ Count("submit") = 1
    /\ outcome = Returned("beta")

\* C2: when planning succeeded with n chunks, the call returns the join of
\* exactly n entries, entry k being the text or the placeholder of chunk k,
\* in plan order, "\n\n" between consecutive entries, none omitted.
C2_JoinOfAllEntries ==
    (pc = "done" /\ PlanSucceeded) =>
        /\ Len(parts) = PlannedCount
        /\ PlannedCount = Len(chunks)
        /\ outcome = Returned(ExpectedJoin(PlannedCount))

C2_Witness ==
    /\ pc = "done"
    /\ PlannedCount = 3
    /\ outcome = Returned("alpha\n\n[transcription error on part 1: timeout]\n\nbeta")

\* C3: when chunk i fails (service error, or error opening its temporary
\* file) and all others succeed, every other chunk's text stands at its own
\* position, entry i is "[transcription error on part i: <description>]"
\* with the 0-based i, and the chunks after i were still submitted.
C3_FailureIsolation ==
    (pc = "done" /\ PlanSucceeded) =>
        \A i \in 0..(PlannedCount - 1) :
            (SegFailed(i) /\ \A j \in 0..(PlannedCount - 1) : j # i => SegSucceeded(j)) =>
                /\ outcome.kind = "returned"
                /\ Len(parts) = PlannedCount
                /\ parts[i + 1] =
                     "[transcription error on part " \o Dec(i) \o ": "
                        \o (IF Happened("open", i, "err") THEN OpenErrorOf(i)
                            ELSE ResponseOf(i).val) \o "]"
                /\ \A j \in 0..(PlannedCount - 1) :
                     j # i => parts[j + 1] = (IF ResponseOf(j).kind = "text"
                                              THEN ResponseOf(j).val ELSE "")
                /\ \A j \in (i + 1)..(PlannedCount - 1) : Happened("submit", j, self.model_name)

C3_Witness ==
    /\ pc = "done"
    /\ PlannedCount = 3
    /\ Happened("open", 1, "err")
    /\ SegSucceeded(0) /\ ResponseOf(0).kind = "text"
    /\ SegSucceeded(2) /\ ResponseOf(2).kind = "text"

\* C4 (as stated): when planning raised, the call ends having made exactly
\* one submission, of the whole file, and returns its text or propagates
\* its error.
C4_FallbackExactlyOne ==
    (pc = "done" /\ PlanningFailed) =>
        /\ Count("submit") = 1
        /\ CountOf("submit", Whole) = 1
        /\ Responded(Whole)
        /\ outcome = (IF ResponseOf(Whole).kind = "error"
                      THEN Raised("ServiceError", ResponseOf(Whole).val)
                      ELSE Returned(IF ResponseOf(Whole).kind = "text"
                                    THEN ResponseOf(Whole).val ELSE ""))

\* C4 (amended): when planning raised, the planning error is never raised:
\* the whole-file path is taken, no chunk is submitted and at most one
\* whole-file submission is made; at the end it is exactly one when the file
\* could be opened, and the call returns its text or propagates its error,
\* and none when open failed, in which case the error of open is raised.
C4_Fallback ==
    PlanningFailed =>
        /\ chunks = <<>>
        /\ Count("submit") <= 1
        /\ CountOf("submit", Whole) = Count("submit")
        /\ pc \in {"whole_open", "whole_call", "whole_wait", "done"}
        /\ (pc = "done" =>
              /\ Count("submit") = (IF Happened("open", Whole, "ok") THEN 1 ELSE 0)
              /\ outcome = WholePathOutcome)

C4_Witness ==
    /\ pc = "done"
    /\ PlanningFailed
    /\ asset.dur = 0
    /\ Count("submit") = 1
    /\ outcome = Returned("alpha")

\* C5: when the call has ended, no temporary file created during it is left
\* on disk (a file whose os.remove was attempted and refused is not held
\* against the claim).
C5_NoTempFileLeft ==
    pc = "done" =>
        \A p \in CreatedTemps :
            \/ p \notin disk
            \/ \E i \in 1..Len(log) :
                 log[i].ev = "remove" /\ log[i].val = p /\ log[i].kind = "err"


\* floor(SizeCeiling * duration_ms / file_size) in exact arithmetic, and
\* whether the division is exact.
ExactQuotient(size, duration_ms) == MulDiv(max_bytes, duration_ms, size)[1]

ExactlyDivides(size, duration_ms) == MulDiv(max_bytes, duration_ms, size)[2] = 0

\* The byte-budget planner has computed its stride.
StrideChosen == plan.kind = "bytes" /\ plan.duration_ms > 0

\* C6 (as stated): the stride of the byte-budget strategy equals
\* max(1000, floor(SizeCeiling * duration_ms / file_size)).
C6_StrideExact ==
    StrideChosen =>
        plan.stride = Max(1000, ExactQuotient(asset.size, plan.duration_ms))

\* C6 (amended): the stride of the byte-budget strategy is never below
\* 1000 ms; with q = floor(SizeCeiling * duration_ms / file_size) it is
\* max(1000, q), or max(1000, q - 1) when file_size divides
\* SizeCeiling * duration_ms exactly (the quotient is computed in floats).
C6_StrideFloor ==
    StrideChosen =>
        LET q == ExactQuotient(asset.size, plan.duration_ms)
        IN  /\ plan.stride >= 1000
            /\ \/ plan.stride = Max(1000, q)
               \/ /\ plan.stride = Max(1000, q - 1)
                  /\ ExactlyDivides(asset.size, plan.duration_ms)

C6_Witness ==
    /\ StrideChosen
    /\ ExactQuotient(asset.size, plan.duration_ms) < 1000
    /\ plan.stride = 1000
    /\ Len(plan.acc) >= 1

\* C7: every chunk of the byte-budget strategy has an estimated encoded
\* size, stride * file_size / duration_ms, of at most SizeCeiling.
C7_EstimateWithinCeiling ==
    (StrideChosen /\ Len(plan.acc) >= 1) =>
        LET est == MulDiv(plan.stride, asset.size, plan.duration_ms)
        IN  est[1] < max_bytes \/ (est[1] = max_bytes /\ est[2] = 0)

\* C8: when the path cannot be statted, the call ends at once with the
\* access error "Could not access file ...": no planner was invoked, nothing
\* was submitted, no temporary file was created.
C8_AccessErrorFirst ==
    StatErr =>
        /\ pc = "done"
        /\ outcome = Raised("FileNotFoundError",
                            "Could not access file '" \o asset.path \o "': " \o log[1].val)
        /\ Len(log) = 1
        /\ Count("plan") = 0
        /\ Count("submit") = 0
        /\ Count("mktemp") = 0
        /\ disk = {}

C8_Witness ==
    /\ StatErr
    /\ pc = "done"
    /\ outcome.kind = "raised"
    /\ outcome.type = "FileNotFoundError"

\* C9: a service error of the whole-file submission, direct or fallback,
\* reaches the caller as that error; it is never turned into a returned
\* placeholder.
C9_WholeErrorPropagates ==
    (pc = "done" /\ Responded(Whole) /\ ResponseOf(Whole).kind = "error") =>
        /\ route \in {"direct", "fallback"}
        /\ outcome = Raised("ServiceError", ResponseOf(Whole).val)

C9_Witness ==
    /\ pc = "done"
    /\ route = "fallback"
    /\ Responded(Whole)
    /\ outcome = Raised("ServiceError", "timeout")

\* C10: a call that fails raises either the access error of the size check
\* or the service error of the whole-file submission, nothing else.
C10_TwoWaysToFail ==
    (pc = "done" /\ outcome.kind = "raised") =>
        \/ (StatErr /\ outcome.type = "FileNotFoundError")
        \/ /\ Responded(Whole)
           /\ ResponseOf(Whole).kind = "error"
           /\ outcome = Raised("ServiceError", ResponseOf(Whole).val)
           /\ outcome.type = "ServiceError"


\* Submissions of the whole file and of chunks during the call.
WholeSubmits == CountOf("submit", Whole)

SegSubmits == Cardinality({ i \in 1..Len(log) : log[i].ev = "submit" /\ log[i].unit # Whole })

\* C11 as stated, counting every error of reaching the file (of the size
\* check or of open) as an access error: a call ends with a string or with
\* an access error, nothing else.
C11_ReturnsOrAccessError ==
    pc = "done" =>
        \/ outcome.kind = "returned"
        \/ /\ outcome.kind = "raised"
           /\ outcome.type \in {"FileNotFoundError", "PermissionError"}
           /\ SegSubmits = 0

\* C11 (amended): a call that has begun always goes on until it ends, and
\* it ends with a string or with one of three errors, all raised before any
\* chunk is submitted: the access error of the size check, the error of
\* open on the whole-file path, or the service error of the whole-file
\* submission. Once the loop over the chunks has begun the call returns.
C11_Outcomes ==
    /\ pc # "done" => (outcome = NoOutcome /\ ENABLED Next)
    /\ pc = "done" =>
          \/ outcome.kind = "returned" /\ outcome.type = "str"
          \/ /\ outcome.kind = "raised"
             /\ route # "segments"
             /\ SegSubmits = 0
             /\ chunks = <<>>
             /\ \/ outcome.type = "FileNotFoundError" /\ StatErr /\ Count("plan") = 0
                \/ outcome.type = "PermissionError" /\ Happened("open", Whole, "err")
                \/ /\ outcome.type = "ServiceError"
                   /\ Responded(Whole)
                   /\ ResponseOf(Whole).kind = "error"
    /\ (pc = "done" /\ route = "segments") => outcome.kind = "returned"

C11_Witness ==
    /\ pc = "done"
    /\ route = "direct"
    /\ outcome = Raised("ServiceError", "timeout")
    /\ WholeSubmits = 1

\* The outcome of chunk k is determined at position m of the history: the
\* service answered, or the chunk's file could not be opened.
Determined(k, m) ==
    /\ log[m].unit = k
    /\ \/ log[m].ev = "response"
       \/ log[m].ev = "open" /\ log[m].kind = "err"

\* Submissions made and not yet answered.
InFlight == Count("submit") - Count("response")

\* C12: chunks are submitted in plan order and one at a time: when chunk k
\* is submitted, every earlier chunk has its outcome and no chunk with the
\* same or a later index was submitted before; at most one submission is
\* in flight; the entries are recorded in the order of the submissions.
C12_InOrderOneAtATime ==
    /\ InFlight \in {0, 1}
    /\ InFlight = 1 <=> inflight # NoUnit
    /\ inflight \notin {NoUnit, Whole} => (inflight = idx /\ Len(parts) = idx)
    /\ \A i \in 1..Len(log) :
         (log[i].ev = "submit" /\ log[i].unit # Whole) =>
            /\ \A j \in 0..(log[i].unit - 1) : \E m \in 1..(i - 1) : Determined(j, m)
            /\ \A m \in 1..(i - 1) : log[m].ev = "submit" => log[m].unit < log[i].unit
    /\ \A k \in 0..(Len(parts) - 1) :
         /\ \E m \in 1..Len(log) : Determined(k, m)
         /\ parts[k + 1] = SegEntry(k)

C12_Witness ==
    /\ pc = "seg_wait"
    /\ inflight = 2
    /\ Len(parts) = 2
    /\ SegSubmits = 3

\* C13: for every chunk that is a temporary file, one removal of that file
\* is attempted once the chunk's outcome is known, whether it succeeded or
\* failed, and before the next chunk is opened or submitted; a removal that
\* fails is not raised and leaves the chunk's entry as it was.
C13_DeleteAfterEachSubmission ==
    /\ \A k \in 0..(Len(chunks) - 1) :
         chunks[k + 1].kind = "file" =>
            /\ CountOf("remove", k) <= 1
            /\ Len(parts) > k =>
                 \E r \in 1..Len(log) :
                    /\ log[r].ev = "remove"
                    /\ log[r].unit = k
                    /\ log[r].val = chunks[k + 1].path
                    /\ \E m \in 1..(r - 1) : Determined(k, m)
                    /\ \A m \in 1..r :
                         log[m].ev \in {"open", "submit"} => log[m].unit <= k
                    /\ parts[k + 1] = SegEntry(k)
            /\ \A r \in 1..Len(log) :
                 (log[r].ev = "remove" /\ log[r].unit = k) =>
                    \E m \in 1..(r - 1) : Determined(k, m)
    /\ (\E k \in 0..(Len(chunks) - 1) : Happened("remove", k, "err")) =>
          outcome.kind # "raised"

C13_Witness ==
    /\ pc = "done"
    /\ outcome.kind = "returned"
    /\ Happened("remove", 0, "err")
    /\ Responded(0)
    /\ ResponseOf(0).kind = "error"
    /\ Happened("submit", 1, self.model_name)
    /\ parts[1] = "[transcription error on part 0: timeout]"

\* C14: nothing is retried: the whole file and every chunk are opened and
\* submitted at most once during a call, a failed submission is never
\* followed by another submission of the same unit, and the service answers
\* each unit at most once.
C14_NoRetry ==
    \A i \in 1..Len(log) :
        /\ CountOf("submit", log[i].unit) <= 1
        /\ CountOf("open", log[i].unit) <= 1
        /\ CountOf("response", log[i].unit) <= 1
        /\ (log[i].ev = "response" /\ log[i].kind = "error") =>
              \A m \in (i + 1)..Len(log) :
                  log[m].unit = log[i].unit => log[m].ev \notin {"open", "submit"}

C14_Witness ==
    /\ pc = "done"
    /\ Responded(1)
    /\ ResponseOf(1).kind = "error"
    /\ CountOf("submit", 1) = 1
    /\ SegSubmits = 3

\* The state of the specification's state machine the call is in.
Phase ==
    CASE pc = "size_check" -> "SIZE_CHECK"
      [] pc \in {"whole_open", "whole_call", "whole_wait"} /\ route = "direct"
            -> "DIRECT_SUBMIT"
      [] pc \in {"whole_open", "whole_call", "whole_wait"} /\ route # "direct"
            -> "FALLBACK_DIRECT_SUBMIT"
      [] pc \in {"dispatch", "plan_load", "plan_loop"} -> "PLANNING"
      [] pc \in {"seg_begin", "seg_call", "seg_wait", "seg_finally"} -> "SEGMENT_LOOP"
      [] pc = "done" -> "DONE"

\* The arrows of the state machine; an access error leads from SIZE_CHECK
\* to DONE.
Edges ==
    { <<"SIZE_CHECK", "DIRECT_SUBMIT">>, <<"SIZE_CHECK", "PLANNING">>,
      <<"SIZE_CHECK", "DONE">>, <<"DIRECT_SUBMIT", "DONE">>,
      <<"PLANNING", "SEGMENT_LOOP">>, <<"PLANNING", "FALLBACK_DIRECT_SUBMIT">>,
      <<"SEGMENT_LOOP", "DONE">>, <<"FALLBACK_DIRECT_SUBMIT", "DONE">> }

\* Chunks of the plan whose temporary file could not be opened.
UnopenedChunks == { k \in 0..(Len(chunks) - 1) : Happened("open", k, "err") }

\* C15 as stated, for its totals: the whole file and a chunk are never
\* both submitted, and a finished call has made 1 submission on the direct
\* and fallback paths, n on the segmented path, 0 after an access error.
C15_SubmissionTotals ==
    /\ WholeSubmits = 0 \/ SegSubmits = 0
    /\ pc = "done" =>
         /\ route \in {"direct", "fallback"} => (WholeSubmits = 1 /\ SegSubmits = 0)
         /\ route = "segments" => (SegSubmits = Len(chunks) /\ WholeSubmits = 0)
         /\ route = "none" => (StatErr /\ WholeSubmits = 0 /\ SegSubmits = 0)

\* What every state of a call shows of its path and of its submissions.
C15_Totals ==
    /\ WholeSubmits = 0 \/ SegSubmits = 0
    /\ route = "direct" => (Count("plan") = 0 /\ SegSubmits = 0)
    /\ route = "fallback" => (PlanningFailed /\ SegSubmits = 0 /\ chunks = <<>>)
    /\ route = "segments" => (PlanSucceeded /\ WholeSubmits = 0 /\ Len(chunks) >= 1)
    /\ pc = "done" =>
         /\ route \in {"direct", "fallback"} =>
               WholeSubmits = (IF Happened("open", Whole, "err") THEN 0 ELSE 1)
         /\ route = "segments" =>
               SegSubmits = Len(chunks) - Cardinality(UnopenedChunks)
         /\ route = "none" => (StatErr /\ WholeSubmits = 0 /\ SegSubmits = 0)

\* C15 (amended): a call moves along the arrows of the state machine only,
\* so it follows one of its paths; the whole file and a chunk are never
\* both submitted; the submissions of a finished call number 1 on the
\* direct and fallback paths (0 when the file could not be opened), n less
\* the chunks whose temporary file could not be opened on the segmented
\* path, and 0 after an access error.
C15_OnePath ==
    /\ []C15_Totals
    /\ [][Phase' # Phase => <<Phase, Phase'>> \in Edges]_vars

C15_Witness ==
    /\ pc = "done"
    /\ route = "segments"
    /\ Len(chunks) = 3
    /\ UnopenedChunks = {1}
    /\ SegSubmits = 2

\* C16: transcribe never calls a planner for an asset of at most
\* SizeCeiling bytes, and the byte-budget planner called on such an asset
\* raises ValueError("File does not need splitting") without decoding the
\* audio and without producing a chunk.
C16_SmallNeverPlanned ==
    /\ (route # "planner" /\ asset.size <= max_bytes) =>
          /\ pc \notin {"dispatch", "plan_load", "plan_loop"}
          /\ Count("plan") = 0
          /\ Count("size") = 0
          /\ Count("decode") = 0
          /\ Count("export") = 0
    /\ (route = "planner" /\ plan.kind = "bytes" /\ asset.size <= max_bytes) =>
          /\ pc \in {"plan_load", "done"}
          /\ pc = "done" =>
                outcome = Raised("ValueError", "File does not need splitting")
          /\ Count("decode") = 0
          /\ Count("export") = 0
          /\ plan.acc = <<>>
          /\ chunks = <<>>

C16_Witness ==
    /\ route = "planner"
    /\ plan.kind = "bytes"
    /\ asset.size = max_bytes
    /\ pc = "done"
    /\ outcome.type = "ValueError"
    /\ Happened("size", Whole, "err")

\* The error of the planner's prologue, as the history shows it.
PrologueError ==
    log[CHOOSE i \in 1..Len(log) : log[i].ev \in {"size", "decode"}].val

\* C17 as stated: on an asset of zero duration either planner ends with
\* "Audio duration is zero" once it has decoded the asset, having produced
\* no chunk and no temporary file, and transcribe on an oversized asset of
\* zero duration makes exactly one submission, of the whole file.
C17_ZeroDurationOneSubmission ==
    (asset.dur = 0 /\ pc = "done") =>
        /\ Count("mktemp") = 0 /\ Count("export") = 0
        /\ (route = "planner" /\ ~Happened("decode", Whole, "err")) =>
              outcome = Raised("ValueError", "Audio duration is zero")
        /\ (route # "planner" /\ StatOk /\ asset.size > max_bytes) =>
              (WholeSubmits = 1 /\ SegSubmits = 0)

\* C17 (amended): on an asset of zero duration no planner produces a chunk
\* or a temporary file; a planner that decodes it raises
\* ValueError("Audio duration is zero"), the byte-budget planner rejecting
\* an asset of at most SizeCeiling bytes before that; transcribe on an
\* oversized one takes the fallback and submits the whole file at most
\* once, exactly once when it can be opened.
C17_ZeroDuration ==
    asset.dur = 0 =>
        /\ Count("mktemp") = 0 /\ Count("export") = 0
        /\ disk = {} /\ chunks = <<>> /\ plan.acc = <<>>
        /\ SegSubmits = 0
        /\ pc # "plan_loop"
        /\ (route = "planner" /\ pc = "done") =>
              /\ outcome.kind = "raised"
              /\ outcome.val = PrologueError
              /\ outcome =
                   IF NeedsNoSplit(plan.kind, asset.size)
                   THEN Raised("ValueError", "File does not need splitting")
                   ELSE IF PrologueError = "Decoding failed"
                   THEN Raised("Exception", "Decoding failed")
                   ELSE Raised("ValueError", "Audio duration is zero")
        /\ (route # "planner" /\ pc = "done" /\ StatOk /\ asset.size > max_bytes) =>
              /\ route = "fallback"
              /\ PrologueError \in {"Decoding failed", "Audio duration is zero"}
              /\ WholeSubmits = (IF Happened("open", Whole, "err") THEN 0 ELSE 1)
              /\ outcome = WholePathOutcome

C17_Witness ==
    /\ asset.dur = 0
    /\ asset.size > max_bytes
    /\ route = "fallback"
    /\ pc = "done"
    /\ PrologueError = "Audio duration is zero"
    /\ plan.kind = "duration"
    /\ WholeSubmits = 1

\* ceil(a / b) for positive b.
Ceil(a, b) == (a + b - 1) \div b

\* The call is transcribe on an oversized asset of the duration-split
\* container with a positive duration.
DurationCase ==
    /\ route # "planner"
    /\ UsesDurationSplit(asset.ext)
    /\ asset.size > max_bytes
    /\ asset.dur > 0

\* C18 as stated, for a call whose planning succeeded and counting every
\* attempted removal as a deletion: ceil(D / S) temporary files, as many
\* submissions and as many deletions.
C18_ExactCounts ==
    (DurationCase /\ pc = "done" /\ PlanSucceeded) =>
        /\ Cardinality(CreatedTemps) = Ceil(asset.dur, chunk_ms)
        /\ SegSubmits = Ceil(asset.dur, chunk_ms)
        /\ Count("remove") = Ceil(asset.dur, chunk_ms)

\* C18 (amended): the duration planner never creates more than
\* ceil(D / S) temporary files; a plan that succeeds holds exactly that
\* many, distinct, file k covering [k * S, min((k + 1) * S, D)); transcribe
\* then attempts one removal per file and submits every file it can open,
\* so ceil(D / S) less the unopened ones; when planning fails no chunk is
\* submitted or removed.
C18_DurationPlanCounts ==
    DurationCase =>
        /\ Cardinality(CreatedTemps) <= Ceil(asset.dur, chunk_ms)
        /\ Count("mktemp") <= Ceil(asset.dur, chunk_ms)
        /\ PlanSucceeded =>
             /\ Len(chunks) = Ceil(asset.dur, chunk_ms)
             /\ Cardinality(CreatedTemps) = Ceil(asset.dur, chunk_ms)
             /\ \A k \in 0..(Len(chunks) - 1) :
                  /\ chunks[k + 1].kind = "file"
                  /\ chunks[k + 1].start = k * chunk_ms
                  /\ chunks[k + 1].stop =
                       (IF (k + 1) * chunk_ms < asset.dur THEN (k + 1) * chunk_ms
                        ELSE asset.dur)
                  /\ Happened("export", k, "ok")
                  /\ \A j \in 0..(k - 1) : chunks[j + 1].path # chunks[k + 1].path
             /\ pc = "done" =>
                  /\ Count("remove") = Ceil(asset.dur, chunk_ms)
                  /\ \A k \in 0..(Len(chunks) - 1) : CountOf("remove", k) = 1
                  /\ SegSubmits = Ceil(asset.dur, chunk_ms) - Cardinality(UnopenedChunks)
        /\ PlanningFailed => (SegSubmits = 0 /\ Count("remove") = 0)

C18_Witness ==
    /\ DurationCase
    /\ pc = "done"
    /\ asset.dur = 720000
    /\ PlanSucceeded
    /\ Cardinality(CreatedTemps) = 3
    /\ SegSubmits = 3
    /\ Count("remove") = 3

\* What the first of two calls left.
Prev == log[EndAt].val

\* The path of the second call so far is the path the first call took.
SamePathSoFar ==
    /\ Len(Second) <= Len(First)
    /\ \A i \in 1..Len(Second) :
         /\ Second[i].ev = First[i].ev
         /\ Second[i].unit = First[i].unit
         /\ Second[i].kind = First[i].kind

\* C19 as stated, the file system too answering the second call as it
\* answered the first: the second call takes the path of the first and
\* returns or raises the same.
C19_SameResult ==
    (SecondCall /\ pc = "done") =>
        /\ SamePathSoFar
        /\ Len(Second) = Len(First)
        /\ route = Prev.route
        /\ outcome = Prev.outcome

\* The entry of chunk k - 1 in the second call is the placeholder of an
\* open error, which contains the name of the temporary file.
OpenPlaceholder(lg, part, k) ==
    \E i \in 1..Len(lg) :
        /\ lg[i].ev = "open" /\ lg[i].unit = k - 1 /\ lg[i].kind = "err"
        /\ part = Placeholder(k - 1, lg[i].val)

C19_Same ==
    /\ self = Transcriber(self.model_name)
    /\ SecondCall =>
         /\ SamePathSoFar
         /\ pc = "done" =>
              /\ Len(Second) = Len(First)
              /\ route = Prev.route
              /\ outcome.kind = Prev.outcome.kind
              /\ outcome.type = Prev.outcome.type
              /\ Len(parts) = Len(Prev.parts)
              /\ \A k \in 1..Len(parts) :
                   \/ parts[k] = Prev.parts[k]
                   \/ /\ OpenPlaceholder(Second, parts[k], k)
                      /\ OpenPlaceholder(First, Prev.parts[k], k)
              /\ route = "segments" =>
                   /\ outcome = Returned(JoinParts(parts))
                   /\ Prev.outcome = Returned(JoinParts(Prev.parts))
              /\ (route # "segments" \/ Second = First
                    \/ \A i \in 1..Len(Second) :
                          ~(Second[i].ev = "open" /\ Second[i].kind = "err")) =>
                   outcome = Prev.outcome

\* C19 (amended): no call changes the Transcriber's max_bytes or
\* model_name, and a second call on the same asset that gets the answers
\* the first one got takes the same path and ends the same way, with the
\* same result but for the name of the temporary file in the placeholder
\* of a chunk that could not be opened.
C19_NoStateBetweenCalls ==
    /\ []C19_Same
    /\ [][self' = self]_vars

C19_Witness ==
    /\ SecondCall
    /\ pc = "done"
    /\ route = "segments"
    /\ Len(parts) = 2
    /\ Len(Second) = Len(First)
    /\ outcome = Prev.outcome
    /\ \E i \in 1..Len(Second) : Second[i].ev = "response" /\ Second[i].kind = "error"
    /\ \E i \in 1..Len(Second) : Second[i].ev = "remove" /\ Second[i].val # First[i].val

(***************************************************************************)
(* Vocabulary of the command line program's properties.                    *)
(***************************************************************************)
\* The name ends in .wav, .mp3 or .m4a, in any mix of upper and lower case.
IsAudioName(name) ==
    /\ Len(name) >= 4
    /\ name[Len(name) - 3] = "."
    /\ << LowerChar(name[Len(name) - 2]), LowerChar(name[Len(name) - 1]),
          LowerChar(name[Len(name)]) >>
         \in { <<"w", "a", "v">>, <<"m", "p", "3">>, <<"m", "4", "a">> }

\* The files transcribe was called for, in the order of the calls.
Attempted ==
    LET calls == SelectSeq([i \in 1..Len(cli.hist) |-> cli.hist[i]],
                           LAMBDA e : e.ev = "transcribe")
    IN  [i \in 1..Len(calls) |-> calls[i].unit]

\* The audio files among the first n of the listing, in listing order.
AudioFilesUpTo(n) ==
    LET sel == SelectSeq(SubSeq(cli.files, 1, n), IsAudioName)
    IN  [i \in 1..Len(sel) |-> StrOf(sel[i])]

\* C20: main calls transcribe once for every listed file with a supported
\* extension, in listing order, whatever the earlier calls did: an
\* exception of transcribe is followed by the remaining files and main
\* returns; main raises only when the Transcriber cannot be built, before
\* any file is attempted.
C20_EveryAudioFileAttempted ==
    /\ cli.pc \notin {"returned", "raised"} => ENABLED NextCli
    /\ cli.pc = "loop" => Attempted = AudioFilesUpTo(cli.pos - 1)
    /\ cli.pc \in {"in_transcribe", "save", "enhance", "interview"} =>
          Attempted = AudioFilesUpTo(cli.pos)
    /\ (cli.pc = "returned" /\ cli.input_exists) =>
          Attempted = AudioFilesUpTo(Len(cli.files))
    /\ cli.pc = "raised" => (~cli.key_set /\ Attempted = <<>>)

C20_Witness ==
    /\ cli.pc = "returned"
    /\ Attempted = <<"a.wav", "B.MP3">>
    /\ \E i \in 1..Len(cli.hist) :
         /\ cli.hist[i].ev = "error"
         /\ cli.hist[i].unit = "a.wav"
         /\ \E j \in (i + 1)..Len(cli.hist) :
              cli.hist[j].ev = "transcribed" /\ cli.hist[j].unit = "B.MP3"

\* Output files whose name is built from the base name of a listed file.
OutputsOf(audio_file) ==
    { f \in cli.written :
        f.name \in { OutputName(audio_file, sfx) :
                       sfx \in {"_transcription.txt", "_enhanced.txt",
                                "_enhanced_interview.txt"} } }

\* C21: for a listed file whose name does not end in .wav, .mp3 or .m4a
\* (in any case) main never calls transcribe or an enhancement and never
\* writes or tries to write an output file.
C21_NonAudioUntouched ==
    \A i \in 1..Len(cli.files) :
        ~IsAudioName(cli.files[i]) =>
            /\ \A j \in 1..Len(cli.hist) : cli.hist[j].unit # StrOf(cli.files[i])
            /\ OutputsOf(cli.files[i]) = {}
            /\ (cli.pc \in {"in_transcribe", "save", "enhance", "interview"}) =>
                  cli.pos # i

C21_Witness ==
    /\ cli.pc = "returned"
    /\ Len(cli.files) = 3
    /\ ~IsAudioName(cli.files[1])
    /\ ~IsAudioName(cli.files[3])
    /\ Attempted = <<"c.m4a">>
    /\ OutputsOf(cli.files[2]) # {}

\* Events of the given kind in main's history.
CliCount(ev) == Cardinality({ j \in 1..Len(cli.hist) : cli.hist[j].ev = ev })

\* C22: when the input folder does not exist main returns at once: no
\* Transcriber is built, the output folder is not made, no file is
\* transcribed and nothing is written.
C22_MissingInputFolder ==
    (~cli.input_exists /\ cli.pc # "start") =>
        /\ cli.pc = "returned"
        /\ self = NoTranscriber
        /\ cli.hist = << Event("error", "", "err", "Input folder does not exist") >>
        /\ CliCount("Transcriber") = 0
        /\ CliCount("makedirs") = 0
        /\ Attempted = <<>>
        /\ cli.written = {}
        /\ pc = "idle"
        /\ log = <<>>
        /\ disk = {}

C22_Witness ==
    /\ ~cli.input_exists
    /\ ~cli.output_exists
    /\ cli.key_set
    /\ cli.enhance_for_reading
    /\ cli.files # <<>>
    /\ cli.pc = "returned"

\* Positions in main's history of the events of a kind for a file.
CliEventsOf(file, ev) ==
    { j \in 1..Len(cli.hist) : cli.hist[j].ev = ev /\ cli.hist[j].unit = file }

\* Positions of the writes of one output file.
WritesOf(file, name) ==
    { j \in CliEventsOf(file, "write") : cli.hist[j].val = name }

\* The only position in a set of one.
TheOne(positions) == CHOOSE j \in positions : TRUE

\* An enhancement of a transcribed file whose processing is complete: it
\* was called once, with the transcript, after the step before it, and its
\* result was written once, to the file of that name; or, without the
\* flag, it was never called and nothing was written.
OptionalDone(file, name, flag, method, label, text, after) ==
    IF ~flag
    THEN CliEventsOf(file, method) = {} /\ WritesOf(file, name) = {}
    ELSE /\ Cardinality(CliEventsOf(file, method)) = 1
         /\ cli.hist[TheOne(CliEventsOf(file, method))].val = text
         /\ TheOne(CliEventsOf(file, method)) > after
         /\ IF cli.hist[TheOne(CliEventsOf(file, method))].kind = "err"
            THEN WritesOf(file, name) = {}
            ELSE /\ WritesOf(file, name) = {TheOne(CliEventsOf(file, method)) + 1}
                 /\ cli.hist[TheOne(WritesOf(file, name))].kind = "ok" =>
                       [name |-> name, content |-> Enhanced(label, text)] \in cli.written

\* C23: for every file transcribe returned a text for, once main has gone
\* past it: the text was written once to <base>_transcription.txt, first;
\* each enhancement whose flag is set was called once with that text and
\* its result written to <base>_enhanced.txt or
\* <base>_enhanced_interview.txt, in that order; an enhancement whose flag
\* is not set was never called.  A write that succeeded left the file with
\* that content.
C23_OutputsPerFile ==
    \A i \in 1..Len(cli.files) :
        LET file == StrOf(cli.files[i])
            verb == OutputName(cli.files[i], "_transcription.txt")
        IN  (CliEventsOf(file, "transcribed") # {}
             /\ (i < cli.pos \/ cli.pc = "returned")) =>
               LET t    == TheOne(CliEventsOf(file, "transcribed"))
                   text == cli.hist[t].val
               IN  /\ Cardinality(CliEventsOf(file, "transcribed")) = 1
                   /\ WritesOf(file, verb) = {t + 1}
                   /\ cli.hist[t + 1].kind = "ok" =>
                         [name |-> verb, content |-> text] \in cli.written
                   /\ OptionalDone(file, OutputName(cli.files[i], "_enhanced.txt"),
                                   cli.enhance_for_reading, "enhance_transcription",
                                   "Readable", text, t + 1)
                   /\ OptionalDone(file, OutputName(cli.files[i], "_enhanced_interview.txt"),
                                   cli.format_as_interview, "enhance_as_interview",
                                   "Interview", text,
                                   IF CliEventsOf(file, "enhance_transcription") = {}
                                   THEN t + 1
                                   ELSE TheOne(CliEventsOf(file, "enhance_transcription")))

C23_Witness ==
    /\ cli.pc = "returned"
    /\ cli.enhance_for_reading
    /\ cli.format_as_interview
    /\ [name |-> "out/a_transcription.txt", content |-> "alpha"] \in cli.written
    /\ [name |-> "out/a_enhanced.txt", content |-> "Readable: alpha"] \in cli.written
    /\ [name |-> "out/a_enhanced_interview.txt", content |-> "Interview: alpha"] \in cli.written
    /\ [name |-> "out/B_transcription.txt", content |-> "beta"] \in cli.written

\* C23 as stated: every transcribed file main has gone past has its
\* verbatim output, and the output of each enhancement whose flag is set.
C23_AllOutputsWritten ==
    \A i \in 1..Len(cli.files) :
        LET file == StrOf(cli.files[i])
        IN  (CliEventsOf(file, "transcribed") # {}
             /\ (i < cli.pos \/ cli.pc = "returned")) =>
               LET text == cli.hist[TheOne(CliEventsOf(file, "transcribed"))].val
               IN  /\ [name |-> OutputName(cli.files[i], "_transcription.txt"),
                       content |-> text] \in cli.written
                   /\ cli.enhance_for_reading =>
                         [name |-> OutputName(cli.files[i], "_enhanced.txt"),
                          content |-> Enhanced("Readable", text)] \in cli.written
                   /\ cli.format_as_interview =>
                         [name |-> OutputName(cli.files[i], "_enhanced_interview.txt"),
                          content |-> Enhanced("Interview", text)] \in cli.written

\* ------------------------------------------------------------------
\* The constructor, called on its own: Transcriber.__init__ (lines 15-23)
\* reads OPENAI_API_KEY, and the object it builds is then used for one
\* transcribe call.
\* ------------------------------------------------------------------

\* What os.getenv("OPENAI_API_KEY") returns: None for a variable that is
\* not set, else its value.
EnvValue(is_set, value) == [is_set |-> is_set, value |-> value]

ApiKeys ==
    { EnvValue(FALSE, ""), EnvValue(TRUE, ""), EnvValue(TRUE, " "),
      EnvValue(TRUE, "sk-test") }

\* Mutant of NotKey: only None is rejected.
NotKeyNoneOnly(api_key) == ~api_key.is_set

\* Line 17, "not api_key": None and the empty string.
NotKey(api_key) == ~api_key.is_set \/ api_key.value = ""

\* The arguments of a construction: none, or the model name.
ConstructorArgs == { <<>>, <<"whisper-1">>, <<"gpt-4o-transcribe">>, <<"">> }

\* Line 15: model_name defaults to "whisper-1".
ModelNameOf(args) == IF args = <<>> THEN "whisper-1" ELSE args[1]

KeyRequired ==
    Raised("EnvironmentError", "OPENAI_API_KEY environment variable is required.")

InitNew ==
    /\ \E key \in ApiKeys, args \in ConstructorArgs :
         cli = [pc |-> "new", api_key |-> key, args |-> args,
                openai_api_key |-> EnvValue(FALSE, ""), error |-> NoOutcome]
    /\ self = NoTranscriber
    /\ asset = NoAsset
    /\ pc = "idle"
    /\ route = "none"
    /\ file_size = 0
    /\ plan = NoPlan
    /\ chunks = <<>>
    /\ idx = 0
    /\ part_text = ""
    /\ temp_file_to_delete = ""
    /\ parts = <<>>
    /\ outcome = NoOutcome
    /\ disk = {}
    /\ tmp_seq = 0
    /\ inflight = NoUnit
    /\ log = <<>>

\* Lines 16-23: raise without a key, else set openai.api_key, model_name
\* and max_bytes.
New ==
    /\ cli.pc = "new"
    /\ IF NotKey(cli.api_key)
       THEN /\ cli' = [cli EXCEPT !.pc = "raised", !.error = KeyRequired]
            /\ self' = self
       ELSE /\ cli' = [cli EXCEPT !.pc = "constructed", !.openai_api_key = cli.api_key]
            /\ self' = Transcriber(ModelNameOf(cli.args))
    /\ UNCHANGED call_vars

\* The object that was built transcribes one asset.
NewTranscribe ==
    /\ cli.pc = "constructed"
    /\ cli' = [cli EXCEPT !.pc = "in_transcribe"]
    /\ asset' \in Assets
    /\ pc' = "size_check"
    /\ UNCHANGED <<self, route, file_size, plan, chunks, idx, part_text,
                   temp_file_to_delete, parts, outcome, disk, tmp_seq, inflight, log>>

NextNew ==
    \/ New
    \/ NewTranscribe
    \/ (cli.pc = "in_transcribe" /\ Next)

SpecNew == InitNew /\ [][NextNew]_vars

\* C24: a construction that has run raised the environment error and built
\* nothing exactly when OPENAI_API_KEY was not set or empty; otherwise it
\* built a Transcriber with max_bytes = 20 * 1024 * 1024 and the model
\* name that was passed, "whisper-1" when none was, and these stay so
\* through the call made on it.
C24_Constructor ==
    cli.pc # "new" =>
        IF ~cli.api_key.is_set \/ cli.api_key.value = ""
        THEN /\ cli.pc = "raised"
             /\ cli.error.kind = "raised"
             /\ cli.error.type = "EnvironmentError"
             /\ self = NoTranscriber
             /\ pc = "idle"
             /\ log = <<>>
        ELSE /\ cli.pc \in {"constructed", "in_transcribe"}
             /\ cli.error = NoOutcome
             /\ self.max_bytes = 20 * 1024 * 1024
             /\ self.max_bytes = 20971520
             /\ self.model_name = (IF cli.args = <<>> THEN "whisper-1" ELSE cli.args[1])
             /\ cli.openai_api_key = cli.api_key

C24_Witness ==
    /\ cli.pc = "in_transcribe"
    /\ cli.api_key = EnvValue(TRUE, "sk-test")
    /\ cli.args = <<"gpt-4o-transcribe">>
    /\ self.model_name = "gpt-4o-transcribe"
    /\ self.max_bytes = 20971520
    /\ pc = "done"
    /\ \E i \in 1..Len(log) : log[i].ev = "submit" /\ log[i].kind = "gpt-4o-transcribe"

\* The smaller of two numbers.
Min(a, b) == IF a < b THEN a ELSE b

\* The windows k (from 0) of a list of chunks are those of stride S over
\* [0, D), named part_k.<ext>.
WindowsOf(cs, S, D, ext) ==
    \A k \in 0..(Len(cs) - 1) :
        /\ cs[k + 1].kind = "mem"
        /\ cs[k + 1].start = k * S
        /\ cs[k + 1].stop = Min((k + 1) * S, D)
        /\ cs[k + 1].name = "part_" \o Dec(k) \o "." \o ext

\* C25: the byte-budget planner, with the stride S it computed for an
\* audio of D > 0 ms, builds its list window by window, and the list it
\* returns has exactly ceil(D / S) chunks, chunk k (from 0) covering
\* [k*S, min((k+1)*S, D)) and named part_k.<ext>: the windows start at 0,
\* each starts where the one before stops, the last stops at D, none is
\* empty and only the last may be shorter than S.
C25_WindowsPartition ==
    (plan.kind = "bytes" /\ plan.stride > 0) =>
        LET S   == plan.stride
            D   == plan.duration_ms
            ext == StrOf(ExportFormat(asset.ext))
        IN  /\ D > 0
            /\ WindowsOf(plan.acc, S, D, ext)
            /\ PlanSucceeded =>
                 /\ chunks = plan.acc
                 /\ Len(chunks) = Ceil(D, S)
                 /\ chunks[1].start = 0
                 /\ chunks[Len(chunks)].stop = D
                 /\ \A k \in 1..(Len(chunks) - 1) :
                        /\ chunks[k + 1].start = chunks[k].stop
                        /\ chunks[k].stop - chunks[k].start = S
                 /\ \A k \in 1..Len(chunks) :
                        /\ chunks[k].start < chunks[k].stop
                        /\ chunks[k].stop - chunks[k].start <= S

C25_Witness ==
    /\ asset.path = "in/GRID.MP3"
    /\ pc = "seg_begin"
    /\ chunks = << MemChunk("part_0.mp3", 0, 1200), MemChunk("part_1.mp3", 1200, 2400),
                   MemChunk("part_2.mp3", 2400, 3000) >>

\* An extension that reads m4a in any mix of cases.
IsM4a(ext) ==
    /\ Len(ext) = 4
    /\ ext[1] = "."
    /\ ext[2] \in {"m", "M"}
    /\ ext[3] = "4"
    /\ ext[4] \in {"a", "A"}

\* C26: whenever transcribe has chosen a planner, the asset is oversized
\* and the choice is the duration strategy exactly when the extension is
\* m4a in any case, whatever the size and duration; the duration strategy
\* runs with a stride of 5 minutes and every chunk it makes is a file
\* path, the byte-budget strategy makes only in-memory chunks, and the
\* list transcribe works on never holds both kinds.
C26_StrategyByExtension ==
    /\ plan.kind \in {"none", "bytes", "duration"}
    /\ plan.kind # "none" =>
         /\ file_size > 20 * MiB
         /\ (plan.kind = "duration") = IsM4a(asset.ext)
         /\ \A i \in 1..Len(log) : log[i].ev = "plan" => log[i].kind = plan.kind
         /\ Count("plan") = 1
         /\ (plan.kind = "duration" /\ Happened("decode", Whole, "ok")) => plan.stride = 5 * 60 * 1000
         /\ \A k \in 1..Len(plan.acc) :
                plan.acc[k].kind = (IF IsM4a(asset.ext) THEN "file" ELSE "mem")
         /\ \A k \in 1..Len(chunks) :
                chunks[k].kind = (IF IsM4a(asset.ext) THEN "file" ELSE "mem")
         /\ \A i \in 1..Len(log) :
                log[i].ev = "mktemp" => IsM4a(asset.ext)
    /\ plan.kind = "none" => chunks = <<>>

C26_Witness ==
    /\ asset.path = "in/CALL.M4A"
    /\ asset.size = 30 * MiB
    /\ pc = "done"
    /\ plan.kind = "duration"
    /\ plan.stride = 300000
    /\ Len(chunks) = 2
    /\ chunks[1].kind = "file"
    /\ chunks[2].kind = "file"

\* Every chunk of the plan failed: its file could not be opened or the
\* service answered with an error.
AllSegmentsFailed == \A k \in 0..(Len(chunks) - 1) : SegFailed(k)

\* C27: from the moment a planner has returned its list, the call is in
\* the loop or has ended, no error has been raised, and while it has not
\* ended a next step is always possible, whatever open, the service and
\* os.remove answer; when it has ended it has returned a string, the join
\* of one entry per chunk, and when all n chunks failed, the join of their
\* n placeholders.
C27_LoopAlwaysReturns ==
    PlanSucceeded =>
        /\ pc \in {"seg_begin", "seg_call", "seg_wait", "seg_finally", "done"}
        /\ outcome.kind # "raised"
        /\ pc # "done" => ENABLED Next
        /\ pc = "done" =>
             /\ outcome.kind = "returned"
             /\ outcome.type = "str"
             /\ Len(parts) = Len(chunks)
             /\ outcome.val = JoinParts(parts)
             /\ AllSegmentsFailed =>
                  /\ \A k \in 0..(Len(chunks) - 1) :
                         parts[k + 1] =
                             "[transcription error on part " \o Dec(k) \o ": "
                                 \o (IF Happened("open", k, "err") THEN OpenErrorOf(k)
                                     ELSE ResponseOf(k).val) \o "]"
                  /\ outcome.val = ExpectedJoin(Len(chunks))

C27_Witness ==
    /\ pc = "done"
    /\ Len(chunks) = 3
    /\ AllSegmentsFailed
    /\ Happened("open", 0, "err")
    /\ Happened("response", 1, "error")
    /\ Happened("remove", 1, "err")
    /\ Happened("response", 2, "error")
    /\ outcome.kind = "returned"

\* Positions in the call's history of the events of a kind for a chunk.
EventsOf(ev, k) == { i \in 1..Len(log) : log[i].ev = ev /\ log[i].unit = k }

\* C28: for a chunk k whose temporary file could not be opened: the chunk
\* is a file path and is never submitted; once its iteration is over, its
\* entry is the placeholder with the index k and the error of open, and
\* one deletion of its file was attempted, after the open and before
\* anything was done for chunk k + 1; and when the call has ended every
\* chunk after k was opened, and submitted when it could be opened, has
\* its own entry, and the call returned the join.
C28_OpenErrorHandled ==
    \A k \in 0..(Len(chunks) - 1) :
        Happened("open", k, "err") =>
            /\ chunks[k + 1].kind = "file"
            /\ EventsOf("submit", k) = {}
            /\ EventsOf("response", k) = {}
            /\ Cardinality(EventsOf("open", k)) = 1
            /\ (idx > k \/ pc = "done") =>
                 /\ Len(parts) > k
                 /\ parts[k + 1] = "[transcription error on part " \o Dec(k) \o ": "
                                       \o OpenErrorOf(k) \o "]"
                 /\ Cardinality(EventsOf("remove", k)) = 1
                 /\ \A r \in EventsOf("remove", k) :
                        /\ log[r].val = chunks[k + 1].path
                        /\ \A o \in EventsOf("open", k) : o < r
                        /\ \A i \in 1..Len(log) :
                               (log[i].unit > k
                                /\ log[i].ev \in {"open", "submit", "response", "remove"})
                                   => r < i
            /\ pc = "done" =>
                 /\ outcome = Returned(JoinParts(parts))
                 /\ Len(parts) = Len(chunks)
                 /\ \A j \in (k + 1)..(Len(chunks) - 1) :
                        /\ Cardinality(EventsOf("open", j)) = 1
                        /\ Happened("open", j, "ok") =>
                               Cardinality(EventsOf("submit", j)) = 1 /\ Responded(j)
                        /\ parts[j + 1] = SegEntry(j)
                        /\ Cardinality(EventsOf("remove", j)) = 1

C28_Witness ==
    /\ pc = "done"
    /\ Len(chunks) = 3
    /\ Happened("open", 0, "err")
    /\ Happened("remove", 0, "ok")
    /\ SegSucceeded(1) /\ ResponseOf(1).kind = "text"
    /\ SegSucceeded(2) /\ ResponseOf(2).kind = "text"
    /\ outcome.kind = "returned"

\* The readability-enhanced output of a file failed: the enhancement
\* raised, or the write of its result did.
EnhancedFailed(i) ==
    \/ \E j \in CliEventsOf(StrOf(cli.files[i]), "enhance_transcription") :
           cli.hist[j].kind = "err"
    \/ \E j \in WritesOf(StrOf(cli.files[i]), OutputName(cli.files[i], "_enhanced.txt")) :
           cli.hist[j].kind = "err"

\* C29: when the readability-enhanced output of a file failed, the save of
\* its verbatim transcript was made before, and the file it wrote stays as
\* it was; once main has gone past the file, the interview enhancement was
\* called with the verbatim transcript when its flag is set; main never
\* ends with an error after it, and when main has returned every audio
\* file listed after it had its transcribe call.
C29_EnhanceFailureIsLocal ==
    \A i \in 1..Len(cli.files) :
        EnhancedFailed(i) =>
            LET file == StrOf(cli.files[i])
                verb == OutputName(cli.files[i], "_transcription.txt")
                t    == TheOne(CliEventsOf(file, "transcribed"))
                text == cli.hist[t].val
                fail == CHOOSE j \in 1..Len(cli.hist) :
                            /\ cli.hist[j].unit = file
                            /\ cli.hist[j].kind = "err"
                            /\ \/ cli.hist[j].ev = "enhance_transcription"
                               \/ cli.hist[j].val = OutputName(cli.files[i], "_enhanced.txt")
            IN  /\ cli.enhance_for_reading
                /\ WritesOf(file, verb) = {t + 1}
                /\ t + 1 < fail
                /\ cli.hist[t + 1].kind = "ok" =>
                       [name |-> verb, content |-> text] \in cli.written
                /\ cli.pc # "raised"
                /\ (i < cli.pos \/ cli.pc = "returned") =>
                       IF cli.format_as_interview
                       THEN /\ Cardinality(CliEventsOf(file, "enhance_as_interview")) = 1
                            /\ \A j \in CliEventsOf(file, "enhance_as_interview") :
                                   j > fail /\ cli.hist[j].val = text
                       ELSE CliEventsOf(file, "enhance_as_interview") = {}
                /\ cli.pc = "returned" =>
                       \A k \in (i + 1)..Len(cli.files) :
                           IsAudioName(cli.files[k]) =>
                               /\ Cardinality(CliEventsOf(StrOf(cli.files[k]), "transcribe")) = 1
                               /\ \A j \in CliEventsOf(StrOf(cli.files[k]), "transcribe") : j > fail

C29_Witness ==
    /\ cli.pc = "returned"
    /\ Len(cli.files) = 3
    /\ StrOf(cli.files[1]) = "a.wav"
    /\ StrOf(cli.files[3]) = "B.MP3"
    /\ \E j \in CliEventsOf("a.wav", "enhance_transcription") : cli.hist[j].kind = "err"
    /\ [name |-> "out/a_transcription.txt", content |-> "alpha"] \in cli.written
    /\ [name |-> "out/a_enhanced_interview.txt", content |-> "Interview: alpha"] \in cli.written
    /\ \E j \in WritesOf("B.MP3", "out/B_enhanced.txt") : cli.hist[j].kind = "err"
    /\ [name |-> "out/B_transcription.txt", content |-> "beta"] \in cli.written

\* ------------------------------------------------------------------
\* logger.py: get_logger, called any number of times in one process.
\* The process's loggers are kept by the logging module, one per name.
\* ------------------------------------------------------------------

MaxLoggerCalls == 4

LoggerNames == {"", "root", "cli", "test_duplicate"}

\* logging.getLogger(name): the one logger of that name; the root logger
\* for an empty name and for its own name.
GetLoggerOf(name) == IF name \in {"", "root"} THEN "root" ELSE name

Loggers == { GetLoggerOf(n) : n \in LoggerNames }

NOTSET == 0

INFO == 20

Handler(id, formatter) == [id |-> id, formatter |-> formatter]

\* The handlers a logger can have before get_logger is first called on it.
HandlersBefore ==
    { <<>>, << Handler(100, "other") >>,
      << Handler(100, "other"), Handler(101, "other") >> }

InitLogging ==
    /\ \E before \in [Loggers -> HandlersBefore] :
         cli = [pc |-> "logging",
                loggers |-> [l \in Loggers |->
                                [handlers |-> before[l], level |-> NOTSET]],
                before |-> before,
                created |-> 0,
                calls |-> <<>>]
    /\ self = NoTranscriber
    /\ asset = NoAsset
    /\ pc = "idle"
    /\ route = "none"
    /\ file_size = 0
    /\ plan = NoPlan
    /\ chunks = <<>>
    /\ idx = 0
    /\ part_text = ""
    /\ temp_file_to_delete = ""
    /\ parts = <<>>
    /\ outcome = NoOutcome
    /\ disk = {}
    /\ tmp_seq = 0
    /\ inflight = NoUnit
    /\ log = <<>>

\* Mutant of NotHandlers: the handler is added on every call.
NotHandlersAlways(handlers) == TRUE

\* Line 29, "not logger.handlers": the logger's own list is empty.
NotHandlers(handlers) == handlers = <<>>

\* Lines 26-34: the logger of the name gets a StreamHandler with the
\* JsonDetailsFormatter and the level INFO when it has no handler, and is
\* returned.
get_logger(name) ==
    /\ cli.pc = "logging"
    /\ Len(cli.calls) < MaxLoggerCalls
    /\ LET logger == GetLoggerOf(name)
           now    == IF NotHandlers(cli.loggers[logger].handlers)
                     THEN [handlers |-> Append(cli.loggers[logger].handlers,
                                               Handler(cli.created, "JsonDetailsFormatter")),
                           level |-> INFO]
                     ELSE cli.loggers[logger]
       IN  cli' = [cli EXCEPT
                     !.loggers = [@ EXCEPT ![logger] = now],
                     !.created = IF NotHandlers(cli.loggers[logger].handlers)
                                 THEN @ + 1 ELSE @,
                     !.calls = Append(@, [name |-> name, logger |-> logger,
                                          handlers |-> now.handlers,
                                          level |-> now.level])]
    /\ UNCHANGED <<self, call_vars>>

NextLogging == \E name \in LoggerNames : get_logger(name)

SpecLogging == InitLogging /\ [][NextLogging]_vars

\* C30: of two calls of get_logger with the same name, the later returns
\* the logger the earlier returned and leaves it with the handlers the
\* earlier left it with, the same ones in the same order; after every call
\* the logger has the handlers it had before the first, or, when it had
\* none, exactly one, the handler get_logger made; and the logger still
\* has them now.
C30_NoDuplicateHandlers ==
    cli.pc = "logging" =>
        /\ \A i \in 1..Len(cli.calls) : \A j \in i..Len(cli.calls) :
               cli.calls[i].name = cli.calls[j].name =>
                   /\ cli.calls[j].logger = cli.calls[i].logger
                   /\ cli.calls[j].handlers = cli.calls[i].handlers
        /\ \A i \in 1..Len(cli.calls) :
               LET c == cli.calls[i]
               IN  /\ cli.loggers[c.logger].handlers = c.handlers
                   /\ IF cli.before[c.logger] = <<>>
                      THEN /\ Len(c.handlers) = 1
                           /\ c.handlers[1].formatter = "JsonDetailsFormatter"
                      ELSE c.handlers = cli.before[c.logger]

C30_Witness ==
    /\ cli.pc = "logging"
    /\ Len(cli.calls) = 4
    /\ cli.before["test_duplicate"] = <<>>
    /\ cli.before["cli"] = << Handler(100, "other") >>
    /\ cli.calls[1].name = "test_duplicate"
    /\ cli.calls[2].name = "cli"
    /\ cli.calls[3].name = "test_duplicate"
    /\ cli.calls[4].name = "test_duplicate"
    /\ Len(cli.loggers["test_duplicate"].handlers) = 1
    /\ cli.loggers["cli"].handlers = << Handler(100, "other") >>

\* ------------------------------------------------------------------
\* utils.py: format_transcription, a function of its argument alone.
\* Texts are sequences of characters.
\* ------------------------------------------------------------------

MaxTextLen == 5

TextChars == {"a", " ", "\n", "\t"}

\* The characters str.strip() removes, among TextChars.
Whitespace == {" ", "\n", "\t"}

RECURSIVE LStrip(_)
LStrip(s) ==
    IF s = <<>> THEN <<>>
    ELSE IF Head(s) \in Whitespace THEN LStrip(Tail(s)) ELSE s

RECURSIVE RStrip(_)
RStrip(s) ==
    IF s = <<>> THEN <<>>
    ELSE IF s[Len(s)] \in Whitespace THEN RStrip(SubSeq(s, 1, Len(s) - 1)) ELSE s

\* Mutant of Strip: only the start of the text is stripped.
StripStart(s) == LStrip(s)

\* str.strip()
Strip(s) == RStrip(LStrip(s))

\* str.replace('\n', ' ')
ReplaceNewlines(s) == [i \in 1..Len(s) |-> IF s[i] = "\n" THEN " " ELSE s[i]]

\* str.replace('  ', ' '): the occurrences are found from the left and do
\* not overlap; what a replacement wrote is not looked at again.
RECURSIVE ReplaceDoubleSpaces(_)
ReplaceDoubleSpaces(s) ==
    IF Len(s) < 2 THEN s
    ELSE IF s[1] = " " /\ s[2] = " "
    THEN <<" ">> \o ReplaceDoubleSpaces(SubSeq(s, 3, Len(s)))
    ELSE <<s[1]>> \o ReplaceDoubleSpaces(Tail(s))

\* Line 18.
format_transcription(transcription) ==
    ReplaceDoubleSpaces(ReplaceNewlines(Strip(transcription)))

RECURSIVE TextsOfLen(_)
TextsOfLen(n) ==
    IF n = 0 THEN { <<>> }
    ELSE { Append(s, c) : s \in TextsOfLen(n - 1), c \in TextChars }

InputTexts == UNION { TextsOfLen(n) : n \in 0..MaxTextLen }

InitFormat ==
    /\ \E t \in InputTexts :
         cli = [pc |-> "format", transcription |-> t, result |-> <<>>]
    /\ self = NoTranscriber
    /\ asset = NoAsset
    /\ pc = "idle"
    /\ route = "none"
    /\ file_size = 0
    /\ plan = NoPlan
    /\ chunks = <<>>
    /\ idx = 0
    /\ part_text = ""
    /\ temp_file_to_delete = ""
    /\ parts = <<>>
    /\ outcome = NoOutcome
    /\ disk = {}
    /\ tmp_seq = 0
    /\ inflight = NoUnit
    /\ log = <<>>

\* The function is applied to the text.
Format ==
    /\ cli.pc = "format"
    /\ cli' = [cli EXCEPT !.pc = "formatted",
                  !.result = format_transcription(cli.transcription)]
    /\ UNCHANGED <<self, call_vars>>

NextFormat == Format

SpecFormat == InitFormat /\ [][NextFormat]_vars

\* The number of blanks a text starts with.
RECURSIVE LeadingBlanks(_)
LeadingBlanks(s) ==
    IF s = <<>> THEN 0
    ELSE IF Head(s) = " " THEN 1 + LeadingBlanks(Tail(s)) ELSE 0

\* A text in which every run of k blanks is replaced by one of
\* ceil(k / 2) blanks: what one pass from the left over the pairs of
\* blanks leaves.
RECURSIVE RunsHalved(_)
RunsHalved(s) ==
    IF s = <<>> THEN <<>>
    ELSE IF Head(s) = " "
    THEN [i \in 1..((LeadingBlanks(s) + 1) \div 2) |-> " "]
            \o RunsHalved(SubSeq(s, LeadingBlanks(s) + 1, Len(s)))
    ELSE <<Head(s)>> \o RunsHalved(Tail(s))

\* The text between the first and the last character that is not
\* whitespace.
Core(s) ==
    LET black == { i \in 1..Len(s) : s[i] \notin Whitespace }
    IN  IF black = {} THEN <<>>
        ELSE SubSeq(s, CHOOSE i \in black : \A j \in black : i <= j,
                       CHOOSE i \in black : \A j \in black : j <= i)

\* C31: the text format_transcription returns has no newline and neither
\* starts nor ends with whitespace; it is the input without its outer
\* whitespace, each newline turned into a blank, and each run of k blanks
\* then cut to ceil(k / 2) blanks (one pass over the pairs, from the
\* left); an input without newline, pair of blanks and outer whitespace is
\* returned as it is.
C31_FormatTranscription ==
    cli.pc = "formatted" =>
        LET t == cli.transcription
            r == cli.result
        IN  /\ \A i \in 1..Len(r) : r[i] # "\n"
            /\ r # <<>> => (r[1] \notin Whitespace /\ r[Len(r)] \notin Whitespace)
            /\ r = RunsHalved([i \in 1..Len(Core(t)) |->
                                  IF Core(t)[i] = "\n" THEN " " ELSE Core(t)[i]])
            /\ ( /\ \A i \in 1..Len(t) : t[i] # "\n"
                 /\ \A i \in 1..(Len(t) - 1) : ~(t[i] = " " /\ t[i + 1] = " ")
                 /\ t # <<>> => (t[1] \notin Whitespace /\ t[Len(t)] \notin Whitespace) )
               => r = t

C31_Witness ==
    /\ cli.pc = "formatted"
    /\ cli.transcription = <<"\t", "a", "\n", " ", "a">>
    /\ cli.result = <<"a", " ", "a">>

\* C32: a list the byte-budget planner returned is for an asset above
\* max_bytes and is not empty; it has at least 2 chunks when the audio is
\* longer than 1000 ms, so a list of one chunk is of an audio of at most
\* 1000 ms; the stride is below the duration unless it is the minimum of
\* 1000 ms.
C32_AtLeastTwo ==
    (plan.kind = "bytes" /\ PlanSucceeded) =>
        /\ asset.size > 20 * MiB
        /\ asset.dur > 0
        /\ Len(chunks) >= 1
        /\ asset.dur > 1000 => Len(chunks) >= 2
        /\ Len(chunks) = 1 => asset.dur <= 1000
        /\ plan.stride < asset.dur \/ plan.stride = 1000

C32_Witness ==
    /\ plan.kind = "bytes"
    /\ PlanSucceeded
    /\ asset.size = 20 * MiB + 1
    /\ asset.dur = 1001
    /\ plan.stride = 1000
    /\ Len(chunks) = 2
    /\ chunks[2].start = 1000
    /\ chunks[2].stop = 1001

\* Every event of the first kind for chunk k comes before every event of
\* the second kind for it.
Before(ev1, ev2, k) ==
    \A i \in EventsOf(ev1, k) : \A j \in EventsOf(ev2, k) : i < j

\* C33: for every chunk k of a returned plan that is a temporary file: at
\* most one open, submission, answer, close and deletion attempt are made
\* for it, in that order; it is submitted and closed only when it could be
\* opened; while its submission is in flight the file is on disk and no
\* deletion of it was attempted; no submission is of a path whose
\* deletion was attempted earlier in the call; and once its iteration is
\* over it was opened once and its deletion attempted exactly once.
C33_OpenSubmitCloseDelete ==
    PlanSucceeded =>
        \A k \in 0..(Len(chunks) - 1) :
            chunks[k + 1].kind = "file" =>
                /\ \A ev \in {"open", "submit", "response", "close", "remove"} :
                       Cardinality(EventsOf(ev, k)) <= 1
                /\ Before("open", "submit", k)
                /\ Before("submit", "response", k)
                /\ Before("response", "close", k)
                /\ Before("close", "remove", k)
                /\ Before("open", "remove", k)
                /\ EventsOf("submit", k) # {} => Happened("open", k, "ok")
                /\ EventsOf("remove", k) # {} =>
                       (EventsOf("submit", k) = {}) = Happened("open", k, "err")
                /\ EventsOf("remove", k) # {} =>
                       Cardinality(EventsOf("close", k)) = Cardinality(EventsOf("submit", k))
                /\ (pc = "seg_wait" /\ idx = k) =>
                       /\ chunks[k + 1].path \in disk
                       /\ EventsOf("remove", k) = {}
                /\ \A i \in EventsOf("submit", k) :
                       /\ log[i].val = chunks[k + 1].path
                       /\ \A j \in 1..(i - 1) :
                              ~(log[j].ev = "remove" /\ log[j].val = log[i].val)
                /\ \A j \in (k + 2)..Len(chunks) : chunks[j].path # chunks[k + 1].path
                /\ (idx > k \/ pc = "done") =>
                       /\ Cardinality(EventsOf("open", k)) = 1
                       /\ Cardinality(EventsOf("remove", k)) = 1
                       /\ \A r \in EventsOf("remove", k) : log[r].val = chunks[k + 1].path

C33_Witness ==
    /\ pc = "done"
    /\ Len(chunks) = 2
    /\ chunks[1].kind = "file"
    /\ Happened("open", 0, "ok")
    /\ Happened("response", 0, "error")
    /\ Happened("close", 0, "ok")
    /\ Happened("remove", 0, "ok")
    /\ Happened("open", 1, "ok")
    /\ Happened("response", 1, "text")
    /\ Happened("remove", 1, "err")

\* The files the call created, wrote or tried to delete.
TouchedFiles ==
    { log[i].val : i \in { j \in 1..Len(log) :
                              \/ log[j].ev \in {"mktemp", "remove"}
                              \/ log[j].ev = "export" /\ plan.kind = "duration" } }

\* C34: the audio file is never created, written or deleted by the call,
\* which only opens it on the whole-file paths; every deletion attempt is
\* of a temporary file the duration planner made and returned in this
\* call, made in the loop; a call without a returned duration plan (the
\* whole-file paths, a plan of chunks in memory, a planner that failed)
\* attempts no deletion, and the files on disk that the call made are
\* those of its duration planner.
C34_SourceUntouched ==
    /\ asset.path \notin TouchedFiles
    /\ asset.path \notin disk
    /\ disk \subseteq CreatedTemps
    /\ \A i \in 1..Len(log) :
           /\ log[i].ev = "remove" =>
                  /\ plan.kind = "duration"
                  /\ PlanSucceeded
                  /\ log[i].val \in CreatedTemps
                  /\ log[i].unit \in 0..(Len(chunks) - 1)
                  /\ chunks[log[i].unit + 1].kind = "file"
                  /\ chunks[log[i].unit + 1].path = log[i].val
                  /\ log[i].val # asset.path
           /\ log[i].ev = "open" =>
                  (log[i].unit = Whole) = (log[i].val = asset.path
                                            \/ log[i].val = OsErrorStr(OpenError, asset.path))
           /\ log[i].ev = "mktemp" => plan.kind = "duration"
    /\ (plan.kind # "duration" \/ ~PlanSucceeded) => Count("remove") = 0
    /\ plan.kind = "bytes" => (CreatedTemps = {} /\ disk = {})

C34_Witness ==
    /\ pc = "done"
    /\ plan.kind = "bytes"
    /\ asset.path = "in/talk.wav"
    /\ Len(chunks) >= 2
    /\ Count("submit") = Len(chunks)
    /\ Count("remove") = 0
    /\ outcome.kind = "returned"

\* ------------------------------------------------------------------
\* Two transcribe calls on two m4a assets, interleaved step by step.
\* The variables of the call hold the locals of the call that is
\* running, cli.waiting those of the call that is not; the Transcriber,
\* the disk and the temporary names are shared.
\* ------------------------------------------------------------------

MaxPairNames == 2

PairAssets ==
    << Asset("in/call.m4a", <<".", "m", "4", "a">>, 25 * MiB, 1 * M4aUnitMs),
       Asset("in/CALL.M4A", <<".", "M", "4", "A">>, 30 * MiB, 2 * M4aUnitMs) >>

\* The locals of a call that has not begun.
NewCall(a) ==
    [asset |-> a, pc |-> "size_check", route |-> "none", file_size |-> 0,
     plan |-> NoPlan, chunks |-> <<>>, idx |-> 0, part_text |-> "",
     temp_file_to_delete |-> "", parts |-> <<>>, outcome |-> NoOutcome,
     inflight |-> NoUnit, log |-> <<>>]

\* The locals of the running call.
Locals ==
    [asset |-> asset, pc |-> pc, route |-> route, file_size |-> file_size,
     plan |-> plan, chunks |-> chunks, idx |-> idx, part_text |-> part_text,
     temp_file_to_delete |-> temp_file_to_delete, parts |-> parts,
     outcome |-> outcome, inflight |-> inflight, log |-> log]

InitPair ==
    /\ self = Transcriber("whisper-1")
    /\ cli = [pc |-> "pair", running |-> 1, waiting |-> NewCall(PairAssets[2])]
    /\ asset = PairAssets[1]
    /\ pc = "size_check"
    /\ route = "none"
    /\ file_size = 0
    /\ plan = NoPlan
    /\ chunks = <<>>
    /\ idx = 0
    /\ part_text = ""
    /\ temp_file_to_delete = ""
    /\ parts = <<>>
    /\ outcome = NoOutcome
    /\ disk = {}
    /\ tmp_seq = 0
    /\ inflight = NoUnit
    /\ log = <<>>

\* The scheduler lets the other call run.
Switch ==
    /\ cli.pc = "pair"
    /\ cli.waiting.pc # "done"
    /\ cli' = [cli EXCEPT !.running = 3 - @, !.waiting = Locals]
    /\ asset' = cli.waiting.asset
    /\ pc' = cli.waiting.pc
    /\ route' = cli.waiting.route
    /\ file_size' = cli.waiting.file_size
    /\ plan' = cli.waiting.plan
    /\ chunks' = cli.waiting.chunks
    /\ idx' = cli.waiting.idx
    /\ part_text' = cli.waiting.part_text
    /\ temp_file_to_delete' = cli.waiting.temp_file_to_delete
    /\ parts' = cli.waiting.parts
    /\ outcome' = cli.waiting.outcome
    /\ inflight' = cli.waiting.inflight
    /\ log' = cli.waiting.log
    /\ UNCHANGED <<self, disk, tmp_seq>>

\* NamedTemporaryFile may give any name that no file has, one that was
\* used and removed before included.
PickName ==
    /\ cli.pc = "pair"
    /\ pc = "plan_loop"
    /\ plan.kind = "duration"
    /\ plan.pos < plan.duration_ms
    /\ tmp_seq' \in { n \in 0..MaxPairNames : TempPath(n) \notin disk } \ {tmp_seq}
    /\ UNCHANGED <<self, cli, asset, pc, route, file_size, plan, chunks, idx, part_text,
                   temp_file_to_delete, parts, outcome, disk, inflight, log>>

\* Mutant of FreshName: a temporary file can get a name that is in use.
FreshNameUnchecked == TRUE

\* NamedTemporaryFile creates its file exclusively: the name is new.
FreshName ==
    (pc = "plan_loop" /\ plan.kind = "duration") => TempPath(tmp_seq) \notin disk

NextPair ==
    \/ (cli.pc = "pair" /\ FreshName /\ Next)
    \/ PickName
    \/ Switch

SpecPair == InitPair /\ [][NextPair]_vars

\* The temporary files a call made and has not removed, from its history.
LiveOf(lg) ==
    { lg[i].val : i \in { j \in 1..Len(lg) :
          /\ lg[j].ev = "mktemp"
          /\ lg[j].kind = "ok"
          /\ \A r \in (j + 1)..Len(lg) :
                 ~(lg[r].ev = "remove" /\ lg[r].kind = "ok" /\ lg[r].val = lg[j].val) } }

\* What the running call returns or raises, from the answers it got: the
\* outcome of a call that runs alone and gets these answers.
OutcomeFromAnswers ==
    IF StatErr
    THEN Raised("FileNotFoundError",
                "Could not access file '" \o asset.path \o "': " \o log[1].val)
    ELSE IF PlanSucceeded THEN Returned(ExpectedJoin(Len(chunks)))
    ELSE WholePathOutcome

\* The running call is not disturbed by the other: its temporary files
\* are its own and are on disk until it removes them, what it removes it
\* made itself, in its planner's list, and its outcome is that of its
\* answers.
Undisturbed ==
    /\ LiveOf(log) \cap LiveOf(cli.waiting.log) = {}
    /\ disk = LiveOf(log) \cup LiveOf(cli.waiting.log)
    /\ \A i \in 1..Len(log) :
           /\ log[i].ev = "remove" =>
                  /\ \E j \in 1..(i - 1) :
                         log[j].ev = "mktemp" /\ log[j].kind = "ok" /\ log[j].val = log[i].val
                  /\ log[i].val = chunks[log[i].unit + 1].path
           /\ (log[i].ev = "open" /\ log[i].unit # Whole /\ log[i].kind = "err") =>
                  log[i].val = OsErrorStr(OpenError, chunks[log[i].unit + 1].path)
    /\ \A k \in (idx + 1)..Len(chunks) :
           chunks[k].path \in LiveOf(log) /\ chunks[k].path \in disk
    /\ pc = "done" =>
           /\ outcome = OutcomeFromAnswers
           /\ PlanSucceeded => (Len(parts) = Len(chunks) /\ Count("remove") = Len(chunks))

\* C35: in every interleaving of two calls on different m4a assets, each
\* call removes only temporary files its own planner made and returned,
\* never a file of the other call, no file of a call disappears before
\* that call removes it, and each call ends with the outcome its own
\* answers (of the file system, the decoder and the service) determine,
\* which is the outcome of a call that runs alone and gets these answers.
C35_CallsDoNotInterfere == cli.pc = "pair" => Undisturbed

C35_Witness ==
    /\ cli.pc = "pair"
    /\ pc = "done"
    /\ cli.waiting.pc = "done"
    /\ cli.running = 2
    /\ Len(chunks) = 2
    /\ Len(cli.waiting.chunks) = 1
    /\ chunks[1].path = "/tmp/tmp0.mp4"
    /\ cli.waiting.chunks[1].path = "/tmp/tmp0.mp4"
    /\ chunks[2].path = "/tmp/tmp2.mp4"
    /\ Count("remove") = 2
    /\ outcome = Returned("alpha\n\nbeta")
    /\ cli.waiting.outcome = Returned("beta")
    /\ \E i \in 1..Len(cli.waiting.log) : cli.waiting.log[i].ev = "remove"
    /\ disk = {}

\* C36: for a file whose transcribe call raised, main logged the error
\* once, right after the call, and for that file made no write of any of
\* the three outputs and called neither enhancement, then or later; no
\* output file of its name exists, and the next thing main did, if any,
\* is for another file.
C36_NoOutputAfterError ==
    \A i \in 1..Len(cli.files) :
        LET file == StrOf(cli.files[i])
        IN  CliEventsOf(file, "error") # {} =>
              /\ Cardinality(CliEventsOf(file, "error")) = 1
              /\ Cardinality(CliEventsOf(file, "transcribe")) = 1
              /\ CliEventsOf(file, "error") =
                     { j + 1 : j \in CliEventsOf(file, "transcribe") }
              /\ CliEventsOf(file, "transcribed") = {}
              /\ CliEventsOf(file, "write") = {}
              /\ CliEventsOf(file, "enhance_transcription") = {}
              /\ CliEventsOf(file, "enhance_as_interview") = {}
              /\ OutputsOf(cli.files[i]) = {}
              /\ \A j \in 1..Len(cli.hist) :
                     cli.hist[j].unit = file => cli.hist[j].ev \in {"transcribe", "error"}
              /\ cli.pc \in {"loop", "in_transcribe", "save", "enhance", "interview",
                             "returned"}
              /\ cli.pc \in {"in_transcribe", "save", "enhance", "interview"} => cli.pos # i

C36_Witness ==
    /\ cli.pc = "returned"
    /\ cli.enhance_for_reading
    /\ cli.format_as_interview
    /\ Len(cli.files) = 3
    /\ StrOf(cli.files[1]) = "a.wav"
    /\ \E j \in CliEventsOf("a.wav", "error") : cli.hist[j].kind = "PermissionError"
    /\ OutputsOf(cli.files[1]) = {}
    /\ Cardinality(OutputsOf(cli.files[3])) = 3

\* The save of the verbatim transcript of file i failed.
VerbatimFailed(i) ==
    \E j \in WritesOf(StrOf(cli.files[i]), OutputName(cli.files[i], "_transcription.txt")) :
        cli.hist[j].kind = "err"

\* C37: when the save of a file's verbatim transcript failed, main does
\* not end with an error; once it has gone past the file, each
\* enhancement whose flag is set was called once, after the failed save,
\* with the text transcribe returned, and its result written when the
\* call returned; and when main has returned, every audio file listed
\* after it had its transcribe call.
C37_VerbatimFailureAbsorbed ==
    \A i \in 1..Len(cli.files) :
        VerbatimFailed(i) =>
            LET file == StrOf(cli.files[i])
                t    == TheOne(CliEventsOf(file, "transcribed"))
                text == cli.hist[t].val
            IN  /\ cli.pc # "raised"
                /\ WritesOf(file, OutputName(cli.files[i], "_transcription.txt")) = {t + 1}
                /\ (i < cli.pos \/ cli.pc = "returned") =>
                       /\ OptionalDone(file, OutputName(cli.files[i], "_enhanced.txt"),
                                       cli.enhance_for_reading, "enhance_transcription",
                                       "Readable", text, t + 1)
                       /\ OptionalDone(file,
                                       OutputName(cli.files[i], "_enhanced_interview.txt"),
                                       cli.format_as_interview, "enhance_as_interview",
                                       "Interview", text, t + 1)
                /\ cli.pc = "returned" =>
                       \A k \in (i + 1)..Len(cli.files) :
                           IsAudioName(cli.files[k]) =>
                               /\ Cardinality(CliEventsOf(StrOf(cli.files[k]), "transcribe")) = 1
                               /\ \A j \in CliEventsOf(StrOf(cli.files[k]), "transcribe") :
                                      j > t + 1

C37_Witness ==
    /\ cli.pc = "returned"
    /\ Len(cli.files) = 3
    /\ StrOf(cli.files[1]) = "a.wav"
    /\ VerbatimFailed(1)
    /\ [name |-> "out/a_enhanced.txt", content |-> "Readable: beta"] \in cli.written
    /\ [name |-> "out/a_enhanced_interview.txt", content |-> "Interview: beta"] \in cli.written
    /\ [name |-> "out/B_transcription.txt", content |-> "alpha"] \in cli.written

\* ------------------------------------------------------------------
\* One transcribe call that is not stopped: the thread goes on as long
\* as it has a step, every call of the decoder, the file system and the
\* service returning or raising.
\* ------------------------------------------------------------------
SpecFair == Init /\ [][Next]_vars /\ WF_vars(Next)

\* The loops advance: the strides are at least 1000 ms and 5 minutes, a
\* planner has made one chunk per stride it has walked and no more than
\* ceil(D / stride), the chunk loop is at an index within the list with
\* one entry per finished iteration, and at the end of a call with a plan
\* it has run once for each of the n chunks.
LoopsBounded ==
    /\ (plan.kind = "bytes" /\ plan.stride # 0) => plan.stride >= 1000
    /\ (plan.kind = "duration" /\ plan.stride # 0) => plan.stride = 300000
    /\ plan.stride # 0 =>
           /\ plan.duration_ms > 0
           /\ plan.pos = Len(plan.acc) * plan.stride
           /\ Len(plan.acc) <= Ceil(plan.duration_ms, plan.stride)
           /\ pc = "plan_loop" => plan.pos < plan.duration_ms + plan.stride
    /\ idx <= Len(chunks)
    /\ Len(parts) = idx
    /\ \A k \in 0..(Len(chunks) - 1) :
           /\ Cardinality(EventsOf("submit", k)) <= 1
           /\ Cardinality(EventsOf("open", k)) <= 1
           /\ Cardinality(EventsOf("remove", k)) <= 1
           /\ k > idx => (EventsOf("submit", k) = {} /\ EventsOf("open", k) = {})
    /\ (pc = "done" /\ PlanSucceeded) =>
           /\ idx = Len(chunks)
           /\ Len(parts) = Len(chunks)
           /\ Len(chunks) = Ceil(plan.duration_ms, plan.stride)
           /\ \A k \in 0..(Len(chunks) - 1) :
                  Cardinality(EventsOf("submit", k))
                      = (IF Happened("open", k, "err") THEN 0 ELSE 1)

\* C38: every transcribe call that is not stopped ends, returning or
\* raising, and on the way its loops are bounded: the planners' strides
\* are at least 1000 ms (byte-budget) and 300000 ms (duration), so they
\* make at most ceil(D / stride) chunks, and the chunk loop runs once for
\* each of the n chunks of the plan.
C38_Terminates == []LoopsBounded /\ <>(pc = "done" /\ outcome.kind # "none")

C38_Witness ==
    /\ pc = "done"
    /\ plan.kind = "bytes"
    /\ asset.path = "in/dense.wav"
    /\ plan.stride = 1018
    /\ Len(chunks) = 3
    /\ idx = 3
    /\ Len(parts) = 3
    /\ outcome.kind = "returned"

====
